---- MODULE Spec2Model ----
(***************************************************************************)
(* Encrypted 2048: the grid engine of the three Home components of the     *)
(* repository (plain numbers, rotation, transpose/reverse), the client     *)
(* objects that seal and unseal the cell values, the useFHE hooks that     *)
(* hand the client to the game, and the achievement claims.                *)
(*                                                                         *)
(* A cell is Null or a handle; with the mock clients a handle is the       *)
(* plain number itself.  A row is a sequence of BOARD_SIZE cells, a board  *)
(* a sequence of BOARD_SIZE rows.  Code indices 0..3 are 1..4 here.        *)
(***************************************************************************)
EXTENDS Integers, Sequences, FiniteSets, TLC

VARIABLES
    variant,       \* which Home component runs: "plain", "rotation", "transpose"
    constAssign,   \* outcome of assigning to `const movedBoard`: "throws", "assigns"
    client,        \* the client object useFHE hands to the game
    initialized,   \* useFHE's initialized flag
    board,         \* useState<Board>
    score,         \* useState(0)
    gameOver,      \* useState(false)
    achievements,  \* useState(INITIAL_ACHIEVEMENTS): id -> [unlocked, claimed]
    moves,         \* number of board-changing moves made so far
    last,          \* observation of the last call of move
    kept,          \* contents of the array objects of the last call of move
    rowIn,         \* input row of the row pass under test
    rowOut,        \* result of the row pass under test
    hook,          \* which useFHE the component is mounted with: "timer", "status", "ethers"
    status,        \* useState<FHEStatus>("booting")
    error,         \* useState<string | null>(null)
    hasPermit,     \* useState(false)
    cdn,           \* window.__COFHE_STATUS__: "unset", "loaded", "failed"
    sdkKind,       \* what the CDN script puts on window: "absent", "partial", "full"
    encTypes,      \* whether it also defines Encryptable and FheTypes
    ticking,       \* a setTimeout of the hook is pending
    polls,         \* number of polls of the loader flag made so far
    calls,         \* the initCoFHE / generatePermit calls awaiting their promise
    started,       \* number of initCoFHE / generatePermit calls started so far
    latestDone,    \* the most recently started call has settled
    returned,      \* the call of the hook's API that acted last: its value so far,
                   \* and the status it acted at
    session,       \* the SDK holds a provider session: initializeWithEthers resolved
    walletAddress, \* useState<string | null>(null), as a flag
    claiming,      \* the achievement whose mint transaction is awaited, or "none"
    listener       \* the render whose move the keydown listener on window calls

hookVars == <<hook, status, error, hasPermit, cdn, sdkKind, encTypes, ticking, polls,
              calls, started, latestDone, returned, session>>

claimVars == <<walletAddress, claiming, listener>>

vars == <<variant, constAssign, client, initialized, board, score, gameOver,
          achievements, moves, last, kept, rowIn, rowOut, hookVars, claimVars>>

gameVars == <<variant, constAssign, client, initialized, board, score, gameOver,
              achievements, moves, last, kept>>

\* no call of the hook's API yet
NoReturn == [op |-> "none", value |-> "none", at |-> "none"]

\* no keydown listener registered
NoListener == [registered |-> FALSE]

\* the hook and the claims at rest: nothing loaded, nothing called, no wallet
IdleHook ==
    /\ hook = "timer"
    /\ status = "booting"
    /\ error = "null"
    /\ hasPermit = FALSE
    /\ cdn = "unset"
    /\ sdkKind = "absent"
    /\ encTypes = FALSE
    /\ ticking = FALSE
    /\ polls = 0
    /\ calls = {}
    /\ started = 0
    /\ latestDone = TRUE
    /\ returned = NoReturn
    /\ session = FALSE
    /\ walletAddress = FALSE
    /\ claiming = "none"
    /\ listener = NoListener

\* ------------------------------------------------------------------ constants

BOARD_SIZE == 4

\* null, the empty cell
Null == 0

\* largest exponent of a tile value drawn for the row pass (2^1 .. 2^MaxExp)
MaxExp == 3

Idx == 1..BOARD_SIZE

RECURSIVE Pow2(_)
Pow2(e) == IF e = 0 THEN 1 ELSE 2 * Pow2(e - 1)

TileValues == {Pow2(e) : e \in 1..MaxExp}

Rows == [Idx -> TileValues \cup {Null}]

Directions == {"left", "right", "up", "down"}

\* ------------------------------------------------------------------ clients

\* mock client of the timer-based hook:   encrypt32: v => v,  unseal: v => v
MockEncrypt32(v) == v
MockUnseal(x) == x

\* mock of the compatibility client:  encrypt32: v => v,  unseal: x => Number(x ?? 0)
CompatMockEncrypt32(v) == v
CompatMockUnseal(x) == IF x = Null THEN 0 ELSE x

\* A pending Promise is written as a negative number: it is no number, no
\* null, and no two Promise objects are the same object.
PromiseOf(v) == IF v < 0 THEN v ELSE 0 - v

IsPromise(x) == x < 0

\* a === b for numbers and Promise objects the code has just created
StrictEq(a, b) == ~IsPromise(a) /\ ~IsPromise(b) /\ a = b

\* compatibility client at status ready with the SDK globals present:
\* encrypt32 and unseal are async functions, a call returns a Promise
RealEncrypt32(v) == PromiseOf(v)
RealUnseal(x) == PromiseOf(x)

\* the Promise of an async function that threw: it stands for no value
Rejected == PromiseOf(1)

\* the same client while the provider fails (sdk.encrypt rejects, sdk.decrypt
\* answers success: false): the async functions throw, the calls return
\* rejected Promises
FailingEncrypt32(v) == Rejected
FailingUnseal(x) == Rejected

\* client.encrypt32(v) / client.unseal(x) for the client object in use;
\* "real-down" is the real client at a time the provider fails
encrypt32(c, v) ==
    CASE c = "compat"    -> CompatMockEncrypt32(v)
      [] c = "real"      -> RealEncrypt32(v)
      [] c = "real-down" -> FailingEncrypt32(v)
      [] OTHER           -> MockEncrypt32(v)

unseal(c, x) ==
    CASE c = "compat"    -> CompatMockUnseal(x)
      [] c = "real"      -> RealUnseal(x)
      [] c = "real-down" -> FailingUnseal(x)
      [] OTHER           -> MockUnseal(x)

\* ------------------------------------------------------------------ array helpers

\* Array.prototype.splice(k, 1) on a 1-based sequence
Splice(f, k) == [i \in 1..(Len(f) - 1) |-> IF i < k THEN f[i] ELSE f[i + 1]]

\* f with f[k] = v
SetAt(f, k, v) == [f EXCEPT ![k] = v]

\* the array of BOARD_SIZE entries F(1), ..., F(BOARD_SIZE), built entry by entry
MkSeq(F(_)) == <<F(1), F(2), F(3), F(4)>>

\* Array(n).fill(null)
Nulls(n) == [i \in 1..n |-> Null]

\* row.filter(v => v !== null)
NonNull(row) == SelectSeq(row, LAMBDA v : v # Null)

\* the sum a loop accumulates over the entries of s
RECURSIVE SumSeq(_)
SumSeq(s) == IF Len(s) = 0 THEN 0 ELSE Head(s) + SumSeq(Tail(s))

\* Array.prototype.reverse
Reverse(s) == [i \in 1..Len(s) |-> s[Len(s) + 1 - i]]

\* ------------------------------------------------------------------ row pass

\* mutant: the loop stops after its first merge (break instead of j--)
RECURSIVE SlideLoopOneMerge(_, _, _, _)
SlideLoopOneMerge(c, filtered, k, scoreAdd) ==
    IF k < Len(filtered)
    THEN LET v1 == unseal(c, filtered[k])
             v2 == unseal(c, filtered[k + 1])
         IN  IF v1 = v2
             THEN [row |-> Splice(SetAt(filtered, k, encrypt32(c, v1 * 2)), k + 1),
                   scoreAdd |-> scoreAdd + v1 * 2]
             ELSE SlideLoopOneMerge(c, filtered, k + 1, scoreAdd)
    ELSE [row |-> filtered, scoreAdd |-> scoreAdd]

\* mutant: a merge stores three times the value
RECURSIVE SlideLoopTriple(_, _, _, _)
SlideLoopTriple(c, filtered, k, scoreAdd) ==
    IF k < Len(filtered)
    THEN LET v1 == unseal(c, filtered[k])
             v2 == unseal(c, filtered[k + 1])
         IN  IF StrictEq(v1, v2)
             THEN SlideLoopTriple(c, Splice(SetAt(filtered, k, encrypt32(c, v1 * 3)), k + 1),
                                  k, scoreAdd + v1 * 2)
             ELSE SlideLoopTriple(c, filtered, k + 1, scoreAdd)
    ELSE [row |-> filtered, scoreAdd |-> scoreAdd]

\* mutant: the merged value is written, the second operand stays in the row
RECURSIVE SlideLoopNoSplice(_, _, _, _)
SlideLoopNoSplice(c, filtered, k, scoreAdd) ==
    IF k < Len(filtered)
    THEN LET v1 == unseal(c, filtered[k])
             v2 == unseal(c, filtered[k + 1])
         IN  IF StrictEq(v1, v2)
             THEN SlideLoopNoSplice(c, SetAt(filtered, k, encrypt32(c, v1 * 2)),
                                    k + 1, scoreAdd + v1 * 2)
             ELSE SlideLoopNoSplice(c, filtered, k + 1, scoreAdd)
    ELSE [row |-> filtered, scoreAdd |-> scoreAdd]

\* transpose/reverse variant: the for loop of slideRowLeft (j is k - 1)
RECURSIVE SlideLoop(_, _, _, _)
SlideLoop(c, filtered, k, scoreAdd) ==
    IF k < Len(filtered)
    THEN LET v1 == unseal(c, filtered[k])
             v2 == unseal(c, filtered[k + 1])
         IN  IF StrictEq(v1, v2)
             THEN \* filtered[j] = merged; splice(j + 1, 1); j--  (then j++)
                  SlideLoop(c, Splice(SetAt(filtered, k, encrypt32(c, v1 * 2)), k + 1),
                            k, scoreAdd + v1 * 2)
             ELSE SlideLoop(c, filtered, k + 1, scoreAdd)
    ELSE [row |-> filtered, scoreAdd |-> scoreAdd]

\* mutant: the merge adds the value of one operand, not of the merged cell
RECURSIVE SlideLoopHalfScore(_, _, _, _)
SlideLoopHalfScore(c, filtered, k, scoreAdd) ==
    IF k < Len(filtered)
    THEN LET v1 == unseal(c, filtered[k])
             v2 == unseal(c, filtered[k + 1])
         IN  IF v1 = v2
             THEN SlideLoopHalfScore(c, Splice(SetAt(filtered, k, encrypt32(c, v1 * 2)), k + 1),
                                     k, scoreAdd + v1)
             ELSE SlideLoopHalfScore(c, filtered, k + 1, scoreAdd)
    ELSE [row |-> filtered, scoreAdd |-> scoreAdd]

slideRowLeftHalfScore(c, row) ==
    IF c = "none" THEN [row |-> row, scoreAdd |-> 0]
    ELSE LET r == SlideLoopHalfScore(c, NonNull(row), 1, 0)
         IN  [row |-> r.row \o Nulls(BOARD_SIZE - Len(r.row)), scoreAdd |-> r.scoreAdd]

\* mutant: the row is padded on the left, the tiles end up at the right edge
slideRowLeftPadLeft(c, row) ==
    IF c = "none" THEN [row |-> row, scoreAdd |-> 0]
    ELSE LET r == SlideLoop(c, NonNull(row), 1, 0)
         IN  [row |-> Nulls(BOARD_SIZE - Len(r.row)) \o r.row, scoreAdd |-> r.scoreAdd]

\* transpose/reverse variant: slideRowLeft(row) = [row', scoreAdd]
slideRowLeft(c, row) ==
    IF c = "none" THEN [row |-> row, scoreAdd |-> 0]
    ELSE LET r == SlideLoop(c, NonNull(row), 1, 0)
         IN  [row |-> r.row \o Nulls(BOARD_SIZE - Len(r.row)), scoreAdd |-> r.scoreAdd]

\* rotation variant: the for loop of slideRowLeft
RECURSIVE RotSlideLoop(_, _, _, _)
RotSlideLoop(c, filtered, k, scoreAdd) ==
    IF k < Len(filtered)
    THEN LET v1 == unseal(c, filtered[k])
             v2 == unseal(c, filtered[k + 1])
         IN  IF v1 = v2
             THEN RotSlideLoop(c, Splice(SetAt(filtered, k, encrypt32(c, v1 * 2)), k + 1),
                               k, scoreAdd + v1 * 2)
             ELSE RotSlideLoop(c, filtered, k + 1, scoreAdd)
    ELSE [row |-> filtered, scoreAdd |-> scoreAdd]

\* rotation variant: the while loop that pads the row with null
RECURSIVE PadNull(_)
PadNull(filtered) ==
    IF Len(filtered) < BOARD_SIZE THEN PadNull(Append(filtered, Null)) ELSE filtered

\* rotation variant: slideRowLeft(row) = [row', scoreAdd]
rotSlideRowLeft(c, row) ==
    LET r == RotSlideLoop(c, NonNull(row), 1, 0)
    IN  [row |-> PadNull(r.row), scoreAdd |-> r.scoreAdd]

\* plain-number variant: the inner for loop of move over one row
RECURSIVE PlainMergeLoop(_, _, _, _)
PlainMergeLoop(row, k, addedScore, merged) ==
    IF k < Len(row)
    THEN IF row[k] = row[k + 1]
         THEN \* row[j] *= 2; addedScore += row[j]; row.splice(j + 1, 1); j--; moved = true
              PlainMergeLoop(Splice(SetAt(row, k, row[k] * 2), k + 1), k,
                             addedScore + row[k] * 2, TRUE)
         ELSE PlainMergeLoop(row, k + 1, addedScore, merged)
    ELSE [row |-> row, scoreAdd |-> addedScore, merged |-> merged]

\* plain-number variant: filter, merge loop and concat of one row
plainSlideRow(row) ==
    LET r == PlainMergeLoop(NonNull(row), 1, 0, FALSE)
    IN  [row |-> r.row \o Nulls(BOARD_SIZE - Len(r.row)), scoreAdd |-> r.scoreAdd,
         merged |-> r.merged]

\* the row pass of the component in use
RowPass(v, c, row) ==
    CASE v = "plain"     -> LET r == plainSlideRow(row) IN [row |-> r.row, scoreAdd |-> r.scoreAdd]
      [] v = "rotation"  -> rotSlideRowLeft(c, row)
      [] v = "transpose" -> slideRowLeft(c, row)

\* ------------------------------------------------------------------ achievements

AchievementIds == {"medium_power", "big_power", "legendary_power"}

threshold(id) ==
    CASE id = "medium_power"    -> 128
      [] id = "big_power"       -> 512
      [] id = "legendary_power" -> 2048

INITIAL_ACHIEVEMENTS == [id \in AchievementIds |-> [unlocked |-> FALSE, claimed |-> FALSE]]

\* ------------------------------------------------------------------ the row pass on its own

Variants == {"plain", "rotation", "transpose"}

\* the client each component plays with when sealing is mocked
MockClientOf(v) ==
    CASE v = "plain"     -> "none"
      [] v = "rotation"  -> "compat"
      [] v = "transpose" -> "mock"

EmptyBoard == MkSeq(LAMBDA i : Nulls(BOARD_SIZE))

NoRow == [done |-> FALSE, row |-> <<>>, scoreAdd |-> 0]

NoMove == [op |-> "none", dir |-> "none", accepted |-> FALSE, threw |-> FALSE,
           moved |-> FALSE, gained |-> 0, before |-> EmptyBoard, slid |-> EmptyBoard,
           scoreBefore |-> 0, gameOverBefore |-> FALSE,
           achievementsBefore |-> INITIAL_ACHIEVEMENTS]

NoKept == [before |-> EmptyBoard, slid |-> EmptyBoard, stored |-> EmptyBoard]

InitRow ==
    /\ variant \in Variants
    /\ constAssign = "assigns"
    /\ client = MockClientOf(variant)
    /\ initialized = TRUE
    /\ board = EmptyBoard
    /\ score = 0
    /\ gameOver = FALSE
    /\ achievements = INITIAL_ACHIEVEMENTS
    /\ moves = 0
    /\ last = NoMove
    /\ kept = NoKept
    /\ IdleHook
    /\ rowIn \in Rows
    /\ rowOut = NoRow

\* one call of the row pass of the component in use
SlideRow ==
    /\ ~rowOut.done
    /\ LET r == RowPass(variant, client, rowIn)
       IN  rowOut' = [done |-> TRUE, row |-> r.row, scoreAdd |-> r.scoreAdd]
    /\ UNCHANGED <<gameVars, rowIn, hookVars, claimVars>>

NextRow == SlideRow

SpecRow == InitRow /\ [][NextRow]_vars

\* ------------------------------------------------------------------ board helpers

EmptyCells(b) == {p \in Idx \X Idx : b[p[1]][p[2]] = Null}

\* the values a new tile takes: Math.random() < 0.9 ? 2 : 4
SpawnValues == {2, 4}

MaxOf(S) == CHOOSE m \in S : \A x \in S : x <= m

\* JSON.stringify of a row: a number and null print as themselves, every
\* Promise object prints as {} (written as the cell PromiseOf(1))
JsonRow(row) == [i \in DOMAIN row |-> IF IsPromise(row[i]) THEN PromiseOf(1) ELSE row[i]]

\* JSON.stringify(a) !== JSON.stringify(b) for two rows
JsonDiffers(a, b) == JsonRow(a) # JsonRow(b)

\* JSON.stringify(a) !== JSON.stringify(b) for two boards
JsonDiffersBoard(a, b) ==
    \/ DOMAIN a # DOMAIN b
    \/ \E i \in DOMAIN a : JsonDiffers(a[i], b[i])

\* mutant: the threshold itself does not unlock
unlockAchievementsAbove(prev, maxValue) ==
    [id \in AchievementIds |->
        IF ~prev[id].unlocked /\ maxValue > threshold(id)
        THEN [prev[id] EXCEPT !.unlocked = TRUE]
        ELSE prev[id]]

\* mutant: only the achievement whose threshold the greatest tile has just
\* reached is unlocked
unlockAchievementsExact(prev, maxValue) ==
    [id \in AchievementIds |->
        IF ~prev[id].unlocked /\ maxValue = threshold(id)
        THEN [prev[id] EXCEPT !.unlocked = TRUE]
        ELSE prev[id]]

\* prev.map(ach => !ach.unlocked && maxValue >= ach.threshold ? {...ach, unlocked: true} : ach)
unlockAchievements(prev, maxValue) ==
    [id \in AchievementIds |->
        IF ~prev[id].unlocked /\ maxValue >= threshold(id)
        THEN [prev[id] EXCEPT !.unlocked = TRUE]
        ELSE prev[id]]

\* ------------------------------------------------------------------ transpose/reverse variant

transpose(b) == MkSeq(LAMBDA col : MkSeq(LAMBDA r : b[r][col]))

reverseRows(b) == MkSeq(LAMBDA i : Reverse(b[i]))

\* mutant: only the horizontal neighbour is compared
RECURSIVE GameOverScanNoVertical(_, _, _, _)
GameOverScanNoVertical(c, b, i, j) ==
    IF i > BOARD_SIZE THEN TRUE
    ELSE IF j > BOARD_SIZE THEN GameOverScanNoVertical(c, b, i + 1, 1)
    ELSE IF b[i][j] = Null THEN FALSE
    ELSE IF j < BOARD_SIZE /\ unseal(c, b[i][j]) = unseal(c, b[i][j + 1]) THEN FALSE
    ELSE GameOverScanNoVertical(c, b, i, j + 1)

isGameOverNoVertical(c, b) == IF c = "none" THEN FALSE ELSE GameOverScanNoVertical(c, b, 1, 1)

\* mutant: isGameOver looks for an empty cell only
isGameOverFullBoard(c, b) == EmptyCells(b) = {}

\* the nested for loops of isGameOver, with their early returns
RECURSIVE GameOverScan(_, _, _, _)
GameOverScan(c, b, i, j) ==
    IF i > BOARD_SIZE THEN TRUE
    ELSE IF j > BOARD_SIZE THEN GameOverScan(c, b, i + 1, 1)
    ELSE IF b[i][j] = Null THEN FALSE
    ELSE LET val == unseal(c, b[i][j])
         IN  IF i < BOARD_SIZE /\ StrictEq(val, unseal(c, b[i + 1][j])) THEN FALSE
             ELSE IF j < BOARD_SIZE /\ StrictEq(val, unseal(c, b[i][j + 1])) THEN FALSE
             ELSE GameOverScan(c, b, i, j + 1)

isGameOver(c, b) == IF c = "none" THEN FALSE ELSE GameOverScan(c, b, 1, 1)

\* mutant: the cell is drawn among all cells, not among the empty ones
addRandomTileAnyCell(c, b) ==
    IF c = "none" THEN {b}
    ELSE IF EmptyCells(b) = {} THEN {b}
    ELSE {[b EXCEPT ![p[1]][p[2]] = encrypt32(c, plainValue)] :
              p \in Idx \X Idx, plainValue \in SpawnValues}

\* mutant: addRandomTile returns the board as it got it
addRandomTileNone(c, b) == {b}

\* addRandomTile(b): the boards it can return, one per random draw
addRandomTile(c, b) ==
    IF c = "none" THEN {b}
    ELSE IF EmptyCells(b) = {} THEN {b}
    ELSE {[b EXCEPT ![p[1]][p[2]] = encrypt32(c, plainValue)] :
              p \in EmptyCells(b), plainValue \in SpawnValues}

\* the transform move applies before the row loop
preTransform(b, direction) ==
    CASE direction = "up"    -> transpose(b)
      [] direction = "right" -> reverseRows(b)
      [] direction = "down"  -> reverseRows(transpose(b))
      [] direction = "left"  -> b

\* mutant: down is undone in the order it was done (transpose, then reverseRows)
postTransformSameOrder(b, direction) ==
    CASE direction = "up"    -> transpose(b)
      [] direction = "right" -> reverseRows(b)
      [] direction = "down"  -> reverseRows(transpose(b))
      [] direction = "left"  -> b

\* the transform move applies after the row loop
postTransform(b, direction) ==
    CASE direction = "up"    -> transpose(b)
      [] direction = "right" -> reverseRows(b)
      [] direction = "down"  -> transpose(reverseRows(b))
      [] direction = "left"  -> b

\* maxValue over the cells of the stored board: if (val) { plain = client.unseal(val) ... }
maxValue(c, b) ==
    MaxOf({0} \cup {unseal(c, b[p[1]][p[2]]) : p \in (Idx \X Idx) \ EmptyCells(b)})

\* the calls slideRowLeft(newBoard[i]) of the row loop
slideRows(c, newBoard) == MkSeq(LAMBDA i : slideRowLeft(c, newBoard[i]))

\* mutant: a row counts as moved only when its first cell changed
rowLoopFirstCellOnly(newBoard, slidRows) ==
    [board |-> MkSeq(LAMBDA i : slidRows[i].row),
     totalScoreAdd |-> SumSeq(MkSeq(LAMBDA i : slidRows[i].scoreAdd)),
     moved |-> \E i \in Idx : slidRows[i].row[1] # newBoard[i][1]]

\* the row loop of move: totalScoreAdd += scoreAdd; moved when the JSON of the
\* new row differs from that of newBoard[i]; newBoard[i] = newRow
rowLoop(newBoard, slidRows) ==
    [board |-> MkSeq(LAMBDA i : slidRows[i].row),
     totalScoreAdd |-> SumSeq(MkSeq(LAMBDA i : slidRows[i].scoreAdd)),
     moved |-> \E i \in Idx : JsonDiffers(slidRows[i].row, newBoard[i])]

\* the row loop on the transformed board, then the transform back
slideTransformed(c, newBoard, direction) ==
    [rowLoop(newBoard, slideRows(c, newBoard)) EXCEPT !.board = postTransform(@, direction)]

\* move, from the copy of the board to the transform back:
\* the board before the spawn, totalScoreAdd and moved
slideBoard(c, b, direction) == slideTransformed(c, preTransform(b, direction), direction)

\* ------------------------------------------------------------------ arrays as objects
\* The transpose/reverse move once more, on array objects: mem is the sequence
\* of the arrays allocated so far, a reference is an index into mem, a board
\* array holds the references of its row arrays.

\* the board whose array object is o
Deref(mem, o) == MkSeq(LAMBDA i : mem[mem[o][i]])

\* the memory holding b alone: row arrays 1..4, board array 5
MemOf(b) == <<b[1], b[2], b[3], b[4], <<1, 2, 3, 4>>>>

\* four fresh row arrays and a fresh board array holding them
AllocBoard(mem, b) ==
    [mem |-> mem \o <<b[1], b[2], b[3], b[4],
                      <<Len(mem) + 1, Len(mem) + 2, Len(mem) + 3, Len(mem) + 4>>>>,
     ret |-> Len(mem) + 5]

\* mutant: board.map((row) => row), the rows are shared with the board
copyBoardHShared(mem, o) == [mem |-> Append(mem, mem[o]), ret |-> Len(mem) + 1]

\* board.map((row) => [...row])
copyBoardH(mem, o) == AllocBoard(mem, Deref(mem, o))

\* b[0].map((_, col) => b.map((row) => row[col]))
transposeH(mem, o) == AllocBoard(mem, transpose(Deref(mem, o)))

\* b.map((row) => row.reverse()): every row array is reversed in place, one
\* after the other, and a fresh board array holds the same row arrays
RECURSIVE ReverseInPlace(_, _, _)
ReverseInPlace(mem, o, i) ==
    IF i > BOARD_SIZE THEN mem
    ELSE ReverseInPlace([mem EXCEPT ![mem[o][i]] = Reverse(@)], o, i + 1)

reverseRowsH(mem, o) ==
    [mem |-> Append(ReverseInPlace(mem, o, 1), mem[o]), ret |-> Len(mem) + 1]

\* the row loop: newBoard[i] = newRow, newRow a fresh array (filter, concat);
\* without a client slideRowLeft returns the row array it was given
RECURSIVE rowLoopH(_, _, _, _)
rowLoopH(c, mem, o, i) ==
    IF i > BOARD_SIZE THEN [mem |-> mem, ret |-> o]
    ELSE IF c = "none" THEN rowLoopH(c, mem, o, i + 1)
    ELSE rowLoopH(c,
                  [Append(mem, slideRowLeft(c, mem[mem[o][i]]).row)
                      EXCEPT ![o] = [@ EXCEPT ![i] = Len(mem) + 1]],
                  o, i + 1)

preTransformH(h, direction) ==
    CASE direction = "up"    -> transposeH(h.mem, h.ret)
      [] direction = "right" -> reverseRowsH(h.mem, h.ret)
      [] direction = "down"  -> LET t == transposeH(h.mem, h.ret) IN reverseRowsH(t.mem, t.ret)
      [] direction = "left"  -> h

postTransformH(h, direction) ==
    CASE direction = "up"    -> transposeH(h.mem, h.ret)
      [] direction = "right" -> reverseRowsH(h.mem, h.ret)
      [] direction = "down"  -> LET r == reverseRowsH(h.mem, h.ret) IN transposeH(r.mem, r.ret)
      [] direction = "left"  -> h

\* move up to the transform back, on the memory holding the board as object 5
slideBoardH(c, b, direction) ==
    LET pre == preTransformH(copyBoardH(MemOf(b), 5), direction)
    IN  postTransformH(rowLoopH(c, pre.mem, pre.ret, 1), direction)

\* newBoard = b.map((row) => [...row]); newBoard[r][c] = encrypted
spawnH(cp, p, encrypted) == [cp EXCEPT !.mem[cp.mem[cp.ret][p[1]]][p[2]] = encrypted]

\* addRandomTile(b) on the array object o, when the board it returns is
\* newBoard: the copy is written, never b
addRandomTileH(c, mem, o, newBoard) ==
    IF c = "none" \/ newBoard = Deref(mem, o) THEN [mem |-> mem, ret |-> o]
    ELSE LET p == CHOOSE q \in Idx \X Idx : newBoard[q[1]][q[2]] # mem[mem[o][q[1]]][q[2]]
         IN  spawnH(copyBoardH(mem, o), p, newBoard[p[1]][p[2]])

\* what the array objects of a call of move hold when it returns: the board
\* that was current at the call, the argument of addRandomTile, the stored board
Kept(mem, slidRef, storedRef) ==
    [before |-> Deref(mem, 5), slid |-> Deref(mem, slidRef), stored |-> Deref(mem, storedRef)]

\* ------------------------------------------------------------------ rotation variant

\* rotated[j][BOARD_SIZE - 1 - i] = b[i][j]
rotateBoardRight(b) == MkSeq(LAMBDA r : MkSeq(LAMBDA col : b[BOARD_SIZE + 1 - col][r]))

\* n applications of rotateBoardRight
RECURSIVE RotateN(_, _)
RotateN(b, n) == IF n = 0 THEN b ELSE RotateN(rotateBoardRight(b), n - 1)

rotateTimes(dir) ==
    CASE dir = "left"  -> 0
      [] dir = "up"    -> 3
      [] dir = "right" -> 2
      [] dir = "down"  -> 1

\* for (k = 0; k < (4 - rotateTimes) % 4; k++) { three rotateBoardRight }
rotateBackCount(dir) == 3 * ((4 - rotateTimes(dir)) % 4)

RECURSIVE RotGameOverScan(_, _, _, _)
RotGameOverScan(c, b, i, j) ==
    IF i > BOARD_SIZE THEN TRUE
    ELSE IF j > BOARD_SIZE THEN RotGameOverScan(c, b, i + 1, 1)
    ELSE IF b[i][j] = Null THEN FALSE
    ELSE LET val == unseal(c, b[i][j])
         IN  IF i < BOARD_SIZE /\ val = unseal(c, b[i + 1][j]) THEN FALSE
             ELSE IF j < BOARD_SIZE /\ val = unseal(c, b[i][j + 1]) THEN FALSE
             ELSE RotGameOverScan(c, b, i, j + 1)

rotIsGameOver(c, b) == RotGameOverScan(c, b, 1, 1)

rotAddRandomTile(c, b) ==
    IF EmptyCells(b) = {} THEN {b}
    ELSE {[b EXCEPT ![p[1]][p[2]] = encrypt32(c, plainValue)] :
              p \in EmptyCells(b), plainValue \in SpawnValues}

rotMaxValue(c, b) ==
    MaxOf({0} \cup {unseal(c, b[p[1]][p[2]]) : p \in (Idx \X Idx) \ EmptyCells(b)})

\* the calls slideRowLeft(row) of newBoard.map
rotSlideRows(c, newBoard) == MkSeq(LAMBDA i : rotSlideRowLeft(c, newBoard[i]))

\* the rotate-back loop and `changed`.  movedBoard is declared const and
\* assigned in the loop: where the binding is immutable the first assignment
\* throws and the handler ends there, where it is emitted as a plain variable
\* the assignment takes effect.
rotateBack(b, movedBoard, gained, threw) ==
    [threw |-> threw,
     board |-> IF threw THEN b ELSE movedBoard,
     gained |-> gained,
     changed |-> ~threw /\ JsonDiffersBoard(movedBoard, b)]

rotSlid(b, slidRows, dir, assign) ==
    rotateBack(b,
               IF rotateBackCount(dir) > 0 /\ assign = "throws" THEN b
               ELSE RotateN(MkSeq(LAMBDA i : slidRows[i].row), rotateBackCount(dir)),
               SumSeq(MkSeq(LAMBDA i : slidRows[i].scoreAdd)),
               rotateBackCount(dir) > 0 /\ assign = "throws")

\* move, from the copy of the board to `changed`
rotSlideBoard(c, b, dir, assign) ==
    rotSlid(b, rotSlideRows(c, RotateN(b, rotateTimes(dir))), dir, assign)

\* ------------------------------------------------------------------ plain-number variant

\* the direction branches at the top of move
plainPreTransform(b, direction) ==
    CASE direction = "right" -> MkSeq(LAMBDA i : Reverse(b[i]))
      [] direction = "down"  -> Reverse(MkSeq(LAMBDA i : MkSeq(LAMBDA r : b[r][i])))
      [] direction = "left"  -> MkSeq(LAMBDA i : Reverse(Reverse(MkSeq(LAMBDA r : b[r][i]))))
      [] direction = "up"    -> b

\* the filter, merge loop and concat of every row
plainSlideRows(newBoard) == MkSeq(LAMBDA i : plainSlideRow(newBoard[i]))

\* the row loop of move: newBoard[i] = row; moved on a merge or when the row
\* differs from board[i], the row of the board as it was before the transform
plainRowLoop(b, slidRows) ==
    [board |-> MkSeq(LAMBDA i : slidRows[i].row),
     addedScore |-> SumSeq(MkSeq(LAMBDA i : slidRows[i].scoreAdd)),
     moved |-> \E i \in Idx : slidRows[i].merged \/ JsonDiffers(slidRows[i].row, b[i])]

\* move, from the copy of the board to the end of the row loop
plainSlideBoard(b, direction) ==
    plainRowLoop(b, plainSlideRows(plainPreTransform(b, direction)))

plainAddRandomTile(b) ==
    IF EmptyCells(b) = {} THEN {b}
    ELSE {[b EXCEPT ![p[1]][p[2]] = v] : p \in EmptyCells(b), v \in SpawnValues}

RECURSIVE PlainGameOverScan(_, _, _)
PlainGameOverScan(b, i, j) ==
    IF i > BOARD_SIZE THEN TRUE
    ELSE IF j > BOARD_SIZE THEN PlainGameOverScan(b, i + 1, 1)
    ELSE IF b[i][j] = Null THEN FALSE
    ELSE IF i < BOARD_SIZE /\ b[i][j] = b[i + 1][j] THEN FALSE
    ELSE IF j < BOARD_SIZE /\ b[i][j] = b[i][j + 1] THEN FALSE
    ELSE PlainGameOverScan(b, i, j + 1)

plainIsGameOver(b) == PlainGameOverScan(b, 1, 1)

plainMaxValue(b) == MaxOf({0} \cup {b[p[1]][p[2]] : p \in Idx \X Idx})

\* the total the merges add that build a tile of value v out of tiles of value 2:
\* a merge of two tiles v into 2v raises the sum of MergeWorth by exactly 2v
RECURSIVE MergeWorth(_)
MergeWorth(v) == IF v <= 2 THEN 0 ELSE 2 * MergeWorth(v \div 2) + v

RowWorth(c, row) ==
    MergeWorth(unseal(c, row[1])) + MergeWorth(unseal(c, row[2]))
        + MergeWorth(unseal(c, row[3])) + MergeWorth(unseal(c, row[4]))

BoardWorth(c, b) == RowWorth(c, b[1]) + RowWorth(c, b[2]) + RowWorth(c, b[3]) + RowWorth(c, b[4])

\* ------------------------------------------------------------------ the game

\* number of row patterns the positions are built from
PoolSize == 5

RowPattern(n) ==
    CASE n = 1 -> <<2, 4, 2, 4>>
      [] n = 2 -> <<4, 2, 4, 8>>
      [] n = 3 -> <<2, 2, 4, Null>>
      [] n = 4 -> <<8, 8, 16, 32>>
      [] n = 5 -> <<Null, 4, 2, 4>>
      [] OTHER -> <<Null, 4, Null, 4>>

RowPool == {RowPattern(n) : n \in 1..PoolSize}

TileCount(b) == Cardinality((Idx \X Idx) \ EmptyCells(b))

\* no empty cell and no two horizontally or vertically adjacent cells equal
Terminal(b) ==
    /\ EmptyCells(b) = {}
    /\ \A i \in Idx : \A j \in 1..(BOARD_SIZE - 1) : b[i][j] # b[i][j + 1]
    /\ \A i \in 1..(BOARD_SIZE - 1) : \A j \in Idx : b[i][j] # b[i + 1][j]

\* positions of a running game: at least the two tiles a game starts with,
\* gameOver as the last move left it
Positions == {b \in [Idx -> RowPool] : TileCount(b) >= 2}

InitGame ==
    /\ variant \in Variants
    /\ constAssign \in (IF variant = "rotation" THEN {"throws", "assigns"} ELSE {"assigns"})
    /\ client = MockClientOf(variant)
    /\ initialized = TRUE
    /\ board \in Positions
    /\ score = 0
    /\ gameOver = Terminal(board)
    /\ achievements = INITIAL_ACHIEVEMENTS
    /\ moves = 0
    /\ last = NoMove
    /\ kept = NoKept
    /\ IdleHook
    /\ rowIn = Nulls(BOARD_SIZE)
    /\ rowOut = NoRow

Observed(direction, accepted, threw, moved, gained, slid) ==
    [op |-> "move", dir |-> direction, accepted |-> accepted, threw |-> threw,
     moved |-> moved, gained |-> gained, before |-> board, slid |-> slid,
     scoreBefore |-> score, gameOverBefore |-> gameOver,
     achievementsBefore |-> achievements]

\* transpose/reverse variant: move(direction); counted is the number of
\* board-changing moves recorded once this one has changed the board
moveStep(direction, counted) ==
    /\ variant = "transpose"
    /\ IF gameOver \/ client = "none" \/ ~initialized
       THEN /\ last' = Observed(direction, FALSE, FALSE, FALSE, 0, board)
            /\ kept' = Kept(MemOf(board), 5, 5)
            /\ UNCHANGED <<board, score, gameOver, achievements, moves>>
       ELSE \E m \in {slideBoard(client, board, direction)} :
            \E h \in {slideBoardH(client, board, direction)} :
                /\ last' = Observed(direction, TRUE, FALSE, m.moved, m.totalScoreAdd, m.board)
                /\ IF m.moved
                   THEN /\ \E newBoard \in addRandomTile(client, m.board) :
                              /\ board' = newBoard
                              /\ score' = score + m.totalScoreAdd
                              /\ achievements' =
                                     unlockAchievements(achievements, maxValue(client, newBoard))
                              /\ gameOver' = IF isGameOver(client, newBoard) THEN TRUE ELSE gameOver
                              /\ \E out \in {addRandomTileH(client, h.mem, h.ret, newBoard)} :
                                     kept' = Kept(out.mem, h.ret, out.ret)
                        /\ moves' = counted
                   ELSE /\ kept' = Kept(h.mem, h.ret, 5)
                        /\ UNCHANGED <<board, score, gameOver, achievements, moves>>
    /\ UNCHANGED <<variant, constAssign, client, initialized, rowIn, rowOut>>
    /\ UNCHANGED <<hookVars, claimVars>>

move(direction) == moveStep(direction, moves + 1)

\* mutant: move without its first line, if (gameOver) return
rotMoveNoGuard(dir) ==
    /\ variant = "rotation"
    /\ IF FALSE
       THEN /\ last' = Observed(dir, FALSE, FALSE, FALSE, 0, board)
            /\ UNCHANGED <<board, score, gameOver, achievements, moves>>
       ELSE \E m \in {rotSlideBoard(client, board, dir, constAssign)} :
                /\ last' = Observed(dir, TRUE, m.threw, m.changed, m.gained, m.board)
                /\ IF m.changed
                   THEN /\ \E withNewTile \in rotAddRandomTile(client, m.board) :
                              /\ board' = withNewTile
                              /\ score' = score + m.gained
                              /\ achievements' =
                                     unlockAchievements(achievements, rotMaxValue(client, withNewTile))
                              /\ gameOver' = IF rotIsGameOver(client, withNewTile) THEN TRUE ELSE gameOver
                        /\ moves' = moves + 1
                   ELSE UNCHANGED <<board, score, gameOver, achievements, moves>>
    /\ UNCHANGED <<variant, constAssign, client, initialized, kept, rowIn, rowOut>>
    /\ UNCHANGED <<hookVars, claimVars>>

\* rotation variant: move(dir)
rotMove(dir) ==
    /\ variant = "rotation"
    /\ IF gameOver
       THEN /\ last' = Observed(dir, FALSE, FALSE, FALSE, 0, board)
            /\ UNCHANGED <<board, score, gameOver, achievements, moves>>
       ELSE \E m \in {rotSlideBoard(client, board, dir, constAssign)} :
                /\ last' = Observed(dir, TRUE, m.threw, m.changed, m.gained, m.board)
                /\ IF m.changed
                   THEN /\ \E withNewTile \in rotAddRandomTile(client, m.board) :
                              /\ board' = withNewTile
                              /\ score' = score + m.gained
                              /\ achievements' =
                                     unlockAchievements(achievements, rotMaxValue(client, withNewTile))
                              /\ gameOver' = IF rotIsGameOver(client, withNewTile) THEN TRUE ELSE gameOver
                        /\ moves' = moves + 1
                   ELSE UNCHANGED <<board, score, gameOver, achievements, moves>>
    /\ UNCHANGED <<variant, constAssign, client, initialized, kept, rowIn, rowOut>>
    /\ UNCHANGED <<hookVars, claimVars>>

\* mutant: the plain-number move without its first line, if (gameOver) return
plainMoveNoGuard(direction) ==
    /\ variant = "plain"
    /\ \E m \in {plainSlideBoard(board, direction)} :
           /\ last' = Observed(direction, TRUE, FALSE, m.moved, m.addedScore, m.board)
           /\ IF m.moved
              THEN /\ \E newBoard \in plainAddRandomTile(m.board) :
                         /\ board' = newBoard
                         /\ score' = score + m.addedScore
                         /\ achievements' =
                                unlockAchievements(achievements, plainMaxValue(newBoard))
                         /\ gameOver' = IF plainIsGameOver(newBoard) THEN TRUE ELSE gameOver
                   /\ moves' = moves + 1
              ELSE UNCHANGED <<board, score, gameOver, achievements, moves>>
    /\ UNCHANGED <<variant, constAssign, client, initialized, kept, rowIn, rowOut>>
    /\ UNCHANGED <<hookVars, claimVars>>

\* plain-number variant: move(direction)
plainMove(direction) ==
    /\ variant = "plain"
    /\ IF gameOver
       THEN /\ last' = Observed(direction, FALSE, FALSE, FALSE, 0, board)
            /\ UNCHANGED <<board, score, gameOver, achievements, moves>>
       ELSE \E m \in {plainSlideBoard(board, direction)} :
                /\ last' = Observed(direction, TRUE, FALSE, m.moved, m.addedScore, m.board)
                /\ IF m.moved
                   THEN /\ \E newBoard \in plainAddRandomTile(m.board) :
                              /\ board' = newBoard
                              /\ score' = score + m.addedScore
                              /\ achievements' =
                                     unlockAchievements(achievements, plainMaxValue(newBoard))
                              /\ gameOver' = IF plainIsGameOver(newBoard) THEN TRUE ELSE gameOver
                        /\ moves' = moves + 1
                   ELSE UNCHANGED <<board, score, gameOver, achievements, moves>>
    /\ UNCHANGED <<variant, constAssign, client, initialized, kept, rowIn, rowOut>>
    /\ UNCHANGED <<hookVars, claimVars>>

\* move applied to a drawn position: calls that leave the board as it is can
\* be repeated, a call that changed the board ends the run
NextGame ==
    \/ \E direction \in Directions : moves = 0 /\ move(direction)
    \/ \E direction \in Directions : moves = 0 /\ rotMove(direction)
    \/ \E direction \in Directions : moves = 0 /\ plainMove(direction)

SpecGame == InitGame /\ [][NextGame]_vars

\* ------------------------------------------------------------------ useFHE and the mounted component

\* a poll count above MaxPolls is not told from MaxPolls
MaxPolls == 2

\* number of initCoFHE / generatePermit calls of a run
MaxCalls == 2

\* getCofhejs(): the SDK object on window, there once the CDN script has run
Sdk == IF cdn = "loaded" THEN sdkKind ELSE "absent"

\* mutant: the memoised client does not look at the status
compatClientAnyStatus(st) ==
    IF Sdk = "absent" \/ ~encTypes THEN "compat" ELSE "real"

\* mutant: the memo does not look for FheTypes
compatClientNoTypes(st) ==
    IF st # "ready" \/ Sdk = "absent" THEN "compat" ELSE "real"

\* the client the status hook memoises when status becomes st
compatClient(st) ==
    IF st # "ready" \/ Sdk = "absent" \/ ~encTypes THEN "compat" ELSE "real"

\* mutant: initializeBoard without setScore(0)
initializeBoardKeepsScore(c) ==
    /\ \E b1 \in addRandomTile(c, EmptyBoard) :
          \E newBoard \in addRandomTile(c, b1) : board' = newBoard
    /\ score' = score
    /\ gameOver' = FALSE
    /\ achievements' = INITIAL_ACHIEVEMENTS
    /\ last' = [NoMove EXCEPT !.op = "initializeBoard"]
    /\ kept' = NoKept

\* mutant: initializeBoard adds one tile
initializeBoardOneTile(c) ==
    /\ \E newBoard \in addRandomTile(c, EmptyBoard) : board' = newBoard
    /\ score' = 0
    /\ gameOver' = FALSE
    /\ achievements' = INITIAL_ACHIEVEMENTS
    /\ last' = [NoMove EXCEPT !.op = "initializeBoard"]
    /\ kept' = NoKept

\* initializeBoard with a client: two tiles on the empty board, score 0,
\* gameOver false, the achievements as new
initializeBoard(c) ==
    /\ \E b1 \in addRandomTile(c, EmptyBoard) :
          \E newBoard \in addRandomTile(c, b1) : board' = newBoard
    /\ score' = 0
    /\ gameOver' = FALSE
    /\ achievements' = INITIAL_ACHIEVEMENTS
    /\ last' = [NoMove EXCEPT !.op = "initializeBoard"]
    /\ kept' = NoKept

\* the effect of Home on [initialized, client], run after a render in which
\* one of the two changed
initEffect(changed, init2, c2) ==
    IF variant = "transpose" /\ changed /\ init2 /\ c2 # "none"
    THEN initializeBoard(c2)
    ELSE UNCHANGED <<board, score, gameOver, achievements, last, kept>>

\* setStatus(st) and the render it causes: client is memoised on [status],
\* initialized is status === "ready", then the effects of Home run
setStatus(st) ==
    /\ status' = st
    /\ client' = IF st # status THEN compatClient(st) ELSE client
    /\ initialized' = (st = "ready")
    /\ initEffect(st # status, st = "ready", IF st # status THEN compatClient(st) ELSE client)

\* status hook: tick of the CDN readiness effect
Tick ==
    /\ hook = "status" /\ ticking
    /\ CASE cdn = "loaded" -> setStatus("cdn-loaded") /\ ticking' = FALSE /\ polls' = polls
         [] cdn = "failed" -> setStatus("cdn-missing") /\ ticking' = FALSE /\ polls' = polls
         [] OTHER ->
              \* setStatus("booting"); window.setTimeout(tick, 200)
              /\ setStatus("booting")
              /\ ticking' = TRUE
              /\ polls' = IF polls < MaxPolls THEN polls + 1 ELSE polls
    /\ UNCHANGED <<variant, constAssign, moves, rowIn, rowOut, hook, error, hasPermit, cdn,
                   sdkKind, encTypes, calls, started, latestDone, returned, session,
                   claimVars>>

\* the CDN loader script sets window.__COFHE_STATUS__
CdnSignal ==
    /\ cdn = "unset"
    /\ cdn' \in {"loaded", "failed"}
    /\ UNCHANGED <<variant, constAssign, client, initialized, board, score, gameOver,
                   achievements, moves, last, kept, rowIn, rowOut, hook, status, error,
                   hasPermit, sdkKind, encTypes, ticking, polls, calls, started, latestDone,
                   returned, session, claimVars>>

\* the call awaits its promise: it is the most recently started one
AwaitCall(op) ==
    /\ calls' = calls \cup {[n |-> started + 1, op |-> op]}
    /\ started' = started + 1
    /\ latestDone' = FALSE
    /\ returned' = [op |-> op, value |-> "pending", at |-> status]
    /\ session' = session

\* the call returned false before any await
ReturnCall(op) ==
    /\ calls' = calls
    /\ started' = started + 1
    /\ latestDone' = TRUE
    /\ returned' = [op |-> op, value |-> "false", at |-> status]
    /\ session' = session

\* mutant: initCoFHE without the check of args.provider and args.signer
initCoFHENoArgsCheck(hasArgs) ==
    /\ hook = "status" /\ started < MaxCalls
    /\ CASE Sdk = "absent" -> setStatus("mock") /\ error' = "no-sdk" /\ ReturnCall("init")
         [] Sdk = "partial" ->
              setStatus("mock") /\ error' = "no-initializeWithEthers" /\ ReturnCall("init")
         [] OTHER -> setStatus("initializing") /\ error' = "null" /\ AwaitCall("init")
    /\ UNCHANGED <<variant, constAssign, moves, rowIn, rowOut, hook, hasPermit, cdn,
                   sdkKind, encTypes, ticking, polls, claimVars>>

\* status hook: initCoFHE(args), up to its await
initCoFHE(hasArgs) ==
    /\ hook = "status" /\ started < MaxCalls
    /\ CASE Sdk = "absent" -> setStatus("mock") /\ error' = "no-sdk" /\ ReturnCall("init")
         [] Sdk # "absent" /\ ~hasArgs ->
              setStatus("needs-wallet") /\ error' = "null" /\ ReturnCall("init")
         [] Sdk = "partial" /\ hasArgs ->
              setStatus("mock") /\ error' = "no-initializeWithEthers" /\ ReturnCall("init")
         [] OTHER -> setStatus("initializing") /\ error' = "null" /\ AwaitCall("init")
    /\ UNCHANGED <<variant, constAssign, moves, rowIn, rowOut, hook, hasPermit, cdn,
                   sdkKind, encTypes, ticking, polls, claimVars>>

\* status hook: generatePermit(issuer), up to its await
generatePermit ==
    /\ hook = "status" /\ started < MaxCalls
    /\ IF Sdk # "full"
       THEN setStatus("mock") /\ error' = "no-createPermit" /\ ReturnCall("permit")
       ELSE setStatus("permit-needed") /\ error' = "null" /\ AwaitCall("permit")
    /\ UNCHANGED <<variant, constAssign, moves, rowIn, rowOut, hook, hasPermit, cdn,
                   sdkKind, encTypes, ticking, polls, claimVars>>

\* the call is no longer awaited: its async function returns value, or its
\* promise rejects (value "threw")
EndCall(call, value) ==
    /\ calls' = calls \ {call}
    /\ latestDone' = (latestDone \/ call.n = started)
    /\ started' = started
    /\ returned' = [op |-> call.op, value |-> value, at |-> status]

\* the awaited promise of a call resolves (a permit result without success: false)
Resolve ==
    /\ hook = "status"
    /\ \E call \in calls :
          /\ EndCall(call, "true")
          /\ session' = (session \/ call.op = "init")
          /\ IF call.op = "init"
             THEN setStatus("permit-needed") /\ UNCHANGED <<error, hasPermit>>
             ELSE setStatus("ready") /\ hasPermit' = TRUE /\ UNCHANGED error
    /\ UNCHANGED <<variant, constAssign, moves, rowIn, rowOut, hook, cdn, sdkKind, encTypes,
                   ticking, polls, claimVars>>

\* mutant: no catch block, the rejection leaves the async function
RejectUncaught ==
    /\ hook = "status"
    /\ \E call \in calls :
          /\ EndCall(call, "threw")
          /\ session' = (session /\ call.op # "init")
          /\ setStatus(status)
          /\ UNCHANGED <<error, hasPermit>>
    /\ UNCHANGED <<variant, constAssign, moves, rowIn, rowOut, hook, cdn, sdkKind, encTypes,
                   ticking, polls, claimVars>>

\* the awaited promise rejects, times out after 20 s, or the permit result
\* says success: false: the catch block
Reject ==
    /\ hook = "status"
    /\ \E call \in calls :
          /\ EndCall(call, "false")
          /\ session' = (session /\ call.op # "init")
          /\ IF call.op = "init"
             THEN setStatus("mock") /\ error' = "init-failed" /\ UNCHANGED hasPermit
             ELSE setStatus("permit-needed") /\ error' = "permit-failed" /\ hasPermit' = FALSE
    /\ UNCHANGED <<variant, constAssign, moves, rowIn, rowOut, hook, cdn, sdkKind, encTypes,
                   ticking, polls, claimVars>>

\* the hook mounted, before its first tick; without a Home component
InitHook ==
    /\ variant = "none"
    /\ constAssign = "assigns"
    /\ hook = "status"
    /\ client = "compat"
    /\ initialized = FALSE
    /\ board = EmptyBoard
    /\ score = 0
    /\ gameOver = FALSE
    /\ achievements = INITIAL_ACHIEVEMENTS
    /\ moves = 0
    /\ last = NoMove
    /\ kept = NoKept
    /\ rowIn = Nulls(BOARD_SIZE)
    /\ rowOut = NoRow
    /\ status = "booting"
    /\ error = "null"
    /\ hasPermit = FALSE
    /\ cdn \in {"unset", "loaded", "failed"}
    /\ sdkKind \in {"absent", "partial", "full"}
    /\ encTypes \in BOOLEAN
    /\ ticking = TRUE
    /\ polls = 0
    /\ calls = {}
    /\ started = 0
    /\ latestDone = TRUE
    /\ returned = NoReturn
    /\ session = FALSE
    /\ walletAddress = FALSE
    /\ claiming = "none"
    /\ listener = NoListener

NextHook ==
    \/ Tick
    \/ CdnSignal
    \/ \E hasArgs \in BOOLEAN : initCoFHE(hasArgs)
    \/ generatePermit
    \/ Resolve
    \/ Reject

\* timers fire, and withTimeout settles every awaited promise within 20 s
SpecHook ==
    InitHook /\ [][NextHook]_vars /\ WF_vars(Tick) /\ WF_vars(Resolve \/ Reject)

\* ------------------------------------------------------------------ resetPermit

\* resetPermit() of the hook the rotation Home is written against: the cached
\* permit is dropped and the status goes back to cdn-loaded while the SDK is
\* on window, to mock otherwise
resetPermit ==
    /\ hook = "status"
    /\ hasPermit' = FALSE
    /\ setStatus(IF Sdk # "absent" THEN "cdn-loaded" ELSE "mock")
    /\ returned' = [op |-> "reset", value |-> "void", at |-> status]
    /\ UNCHANGED <<variant, constAssign, moves, rowIn, rowOut, hook, error, cdn, sdkKind,
                   encTypes, ticking, polls, calls, started, latestDone, session, claimVars>>

NextReset ==
    \/ NextHook
    \/ resetPermit

SpecReset == InitHook /\ [][NextReset]_vars

\* ------------------------------------------------------------------ the ethers hook

\* setStatus(st) of the ethers hook, which hands no client and no initialized
\* flag to the component
setStatusEthers(st) ==
    /\ status' = st
    /\ UNCHANGED <<client, initialized, board, score, gameOver, achievements, last, kept>>

\* ethers hook: the mount effect samples the loader flag and the globals once
MountEthers ==
    /\ hook = "ethers" /\ ticking
    /\ ticking' = FALSE
    /\ CASE cdn = "loaded" /\ Sdk # "absent" /\ encTypes -> setStatusEthers("cdn-loaded")
         [] cdn = "failed" -> setStatusEthers("cdn-missing")
         [] OTHER -> setStatusEthers("booting")
    /\ UNCHANGED <<variant, constAssign, moves, rowIn, rowOut, hook, error, hasPermit, cdn,
                   sdkKind, encTypes, polls, calls, started, latestDone, returned, session,
                   claimVars>>

\* ethers hook: initWithEthers(args), up to its await
initWithEthers(hasArgs) ==
    /\ hook = "ethers" /\ started < MaxCalls
    /\ CASE Sdk = "absent" -> setStatusEthers("mock") /\ error' = "no-sdk" /\ ReturnCall("ethers")
         [] Sdk # "absent" /\ ~hasArgs ->
              setStatusEthers("needs-wallet") /\ error' = "null" /\ ReturnCall("ethers")
         [] Sdk = "partial" /\ hasArgs ->
              /\ setStatusEthers("error")
              /\ error' = "no-initializeWithEthers"
              /\ ReturnCall("ethers")
         [] OTHER -> setStatusEthers("initializing") /\ error' = "null" /\ AwaitCall("ethers")
    /\ UNCHANGED <<variant, constAssign, moves, rowIn, rowOut, hook, hasPermit, cdn,
                   sdkKind, encTypes, ticking, polls, claimVars>>

\* ethers hook: the promise of initializeWithEthers, awaited bare, resolves
ResolveEthers ==
    /\ hook = "ethers"
    /\ \E call \in calls :
          /\ EndCall(call, "true")
          /\ session' = TRUE
          /\ setStatusEthers("ready")
          /\ UNCHANGED <<error, hasPermit>>
    /\ UNCHANGED <<variant, constAssign, moves, rowIn, rowOut, hook, cdn, sdkKind, encTypes,
                   ticking, polls, claimVars>>

\* ethers hook: the promise of initializeWithEthers rejects: the catch block
RejectEthers ==
    /\ hook = "ethers"
    /\ \E call \in calls :
          /\ EndCall(call, "false")
          /\ session' = FALSE
          /\ setStatusEthers("error")
          /\ error' = "init-failed"
          /\ UNCHANGED hasPermit
    /\ UNCHANGED <<variant, constAssign, moves, rowIn, rowOut, hook, cdn, sdkKind, encTypes,
                   ticking, polls, claimVars>>

\* ethers hook: encryptUint32(value).mode for the status of the render
encryptUint32Mode == IF status # "ready" \/ Sdk = "absent" \/ ~encTypes THEN "mock" ELSE "cofhe"

\* either hook mounted, before its first effect; without a Home component
InitAuth ==
    /\ variant = "none"
    /\ constAssign = "assigns"
    /\ hook \in {"status", "ethers"}
    /\ client = (IF hook = "status" THEN "compat" ELSE "none")
    /\ initialized = FALSE
    /\ board = EmptyBoard
    /\ score = 0
    /\ gameOver = FALSE
    /\ achievements = INITIAL_ACHIEVEMENTS
    /\ moves = 0
    /\ last = NoMove
    /\ kept = NoKept
    /\ rowIn = Nulls(BOARD_SIZE)
    /\ rowOut = NoRow
    /\ status = "booting"
    /\ error = "null"
    /\ hasPermit = FALSE
    /\ cdn \in {"unset", "loaded", "failed"}
    /\ sdkKind \in {"absent", "partial", "full"}
    /\ encTypes \in BOOLEAN
    /\ ticking = TRUE
    /\ polls = 0
    /\ calls = {}
    /\ started = 0
    /\ latestDone = TRUE
    /\ returned = NoReturn
    /\ session = FALSE
    /\ walletAddress = FALSE
    /\ claiming = "none"
    /\ listener = NoListener

NextAuth ==
    \/ NextHook
    \/ MountEthers
    \/ \E hasArgs \in BOOLEAN : initWithEthers(hasArgs)
    \/ ResolveEthers
    \/ RejectEthers

\* timers and effects run, withTimeout settles the awaited promises of the
\* status hook within 20 s; the promise the ethers hook awaits is the
\* provider's own and may stay pending
SpecAuth ==
    /\ InitAuth
    /\ [][NextAuth]_vars
    /\ WF_vars(Tick)
    /\ WF_vars(Resolve \/ Reject)
    /\ WF_vars(MountEthers)

\* ------------------------------------------------------------------ the session

\* board-changing moves of a session
MaxMoves == 2

\* number of empty cells (the first ones, row by row) a random draw picks among
MaxDraws == 1

\* number of mid-game positions a session may be picked up at
SessionPool == 2

\* number of calls of the hook's API in a session
SessionCalls == 1

\* timer hook: the timeout fires and initCoFHE runs; window.CoFHE is absent or
\* cofhe.init() rejects, so the mock client is set
TimerInit ==
    /\ hook = "timer" /\ ticking
    /\ ticking' = FALSE
    /\ client' = "mock"
    /\ initialized' = TRUE
    /\ error' = "null"
    /\ initEffect(TRUE, TRUE, "mock")
    /\ UNCHANGED <<variant, constAssign, moves, rowIn, rowOut, hook, status, hasPermit, cdn,
                   sdkKind, encTypes, polls, calls, started, latestDone, returned, session,
                   claimVars>>

\* connectWallet succeeded / disconnectWallet
setWalletAddress ==
    /\ walletAddress' = ~walletAddress
    /\ UNCHANGED <<variant, constAssign, client, initialized, board, score, gameOver,
                   achievements, moves, last, kept, rowIn, rowOut, hookVars, claiming, listener>>

\* the Claim NFT button of achievement id: disabled = !unlocked || claimed ||
\* isClaiming; handleClaimAchievement up to its awaits
handleClaimAchievement(id) ==
    /\ variant = "transpose"
    /\ achievements[id].unlocked /\ ~achievements[id].claimed /\ claiming = "none"
    /\ claiming' = IF walletAddress THEN id ELSE "none"
    /\ UNCHANGED <<variant, constAssign, client, initialized, board, score, gameOver,
                   achievements, moves, last, kept, rowIn, rowOut, hookVars, walletAddress, listener>>

\* tx.wait() resolved: the achievement is marked claimed in the current list
claimMinted ==
    /\ claiming # "none"
    /\ achievements' = [achievements EXCEPT ![claiming].claimed = TRUE]
    /\ claiming' = "none"
    /\ UNCHANGED <<variant, constAssign, client, initialized, board, score, gameOver,
                   moves, last, kept, rowIn, rowOut, hookVars, walletAddress, listener>>

\* one of the awaits of handleClaimAchievement rejected
claimFailed ==
    /\ claiming # "none"
    /\ claiming' = "none"
    /\ UNCHANGED <<variant, constAssign, client, initialized, board, score, gameOver,
                   achievements, moves, last, kept, rowIn, rowOut, hookVars, walletAddress, listener>>

\* rank of a cell in row order
CellRank(p) == BOARD_SIZE * (p[1] - 1) + p[2]

\* the first MaxDraws empty cells of b
FirstEmpty(b) ==
    {p \in EmptyCells(b) :
        Cardinality({q \in EmptyCells(b) : CellRank(q) < CellRank(p)}) < MaxDraws}

\* b with a 2 or a 4 on one of its first empty cells
BoundedSpawns(b) ==
    {[b EXCEPT ![p[1]][p[2]] = v] : p \in FirstEmpty(b), v \in SpawnValues}

\* the boards initializeBoard stores when its draws fall on the first empty cells
BoundedInitBoards == UNION {BoundedSpawns(b1) : b1 \in BoundedSpawns(EmptyBoard)}

\* the boards a move stores when its draw falls on one of the first empty cells
MoveDraws(direction) ==
    IF client = "none" THEN {board}
    ELSE LET slid == slideBoard(client, board, direction).board
         IN  {board, slid} \cup BoundedSpawns(slid)

\* the boards a step of the hook leaves when the draws of the initializeBoard
\* it may cause fall on the first empty cells
InitDraws == {board} \cup BoundedInitBoards

\* mid-game positions
SessionPosition(n) ==
    CASE n = 1 -> <<<<64, 64, 4, 2>>, <<2, 8, Null, Null>>, Nulls(4), Nulls(4)>>
      [] n = 2 -> <<<<256, 256, 128, 4>>, <<2, 4, Null, Null>>, Nulls(4), Nulls(4)>>
      [] n = 3 -> <<<<1024, 1024, 8, 2>>, <<4, 2, Null, Null>>, Nulls(4), Nulls(4)>>
      [] OTHER -> <<<<32, 32, 64, 2>>, <<4, 2, Null, Null>>, Nulls(4), Nulls(4)>>

\* Home mounted with a hook that hands out a mock client (the status hook on a
\* window without Encryptable and FheTypes): freshly mounted, or picked up in
\* the middle of a game
InitSession ==
    /\ variant = "transpose"
    /\ constAssign = "assigns"
    /\ hook \in {"timer", "status"}
    /\ score = 0
    /\ gameOver = FALSE
    /\ moves = 0
    /\ last = NoMove
    /\ kept = NoKept
    /\ rowIn = Nulls(BOARD_SIZE)
    /\ rowOut = NoRow
    /\ error = "null"
    /\ encTypes = FALSE
    /\ polls = 0
    /\ calls = {}
    /\ started = 0
    /\ latestDone = TRUE
    /\ returned = NoReturn
    /\ session = FALSE
    /\ walletAddress = FALSE
    /\ claiming = "none"
    /\ listener = NoListener
    /\ \/ /\ board = EmptyBoard
          /\ achievements = INITIAL_ACHIEVEMENTS
          /\ client = (IF hook = "status" THEN "compat" ELSE "none")
          /\ initialized = FALSE
          /\ status = "booting"
          /\ hasPermit = FALSE
          /\ ticking = TRUE
          /\ cdn \in {"unset", "loaded", "failed"}
          /\ sdkKind \in (IF hook = "status" THEN {"absent", "full"} ELSE {"absent"})
       \/ /\ \E n \in 1..SessionPool : board = SessionPosition(n)
          /\ client = (IF hook = "status" THEN "compat" ELSE "mock")
          /\ achievements = unlockAchievements(INITIAL_ACHIEVEMENTS, maxValue(client, board))
          /\ initialized = TRUE
          /\ status = (IF hook = "status" THEN "ready" ELSE "booting")
          /\ hasPermit = (hook = "status")
          /\ ticking = FALSE
          /\ cdn = (IF hook = "status" THEN "loaded" ELSE "unset")
          /\ sdkKind = (IF hook = "status" THEN "full" ELSE "absent")

NextSession ==
    \/ \E direction \in Directions :
          moves < MaxMoves /\ board' \in MoveDraws(direction) /\ move(direction)
    \/ board' \in InitDraws /\ TimerInit
    \/ board' \in InitDraws /\ Tick
    \/ CdnSignal
    \/ \E hasArgs \in BOOLEAN :
          started < SessionCalls /\ board' \in InitDraws /\ initCoFHE(hasArgs)
    \/ started < SessionCalls /\ board' \in InitDraws /\ generatePermit
    \/ board' \in InitDraws /\ Resolve
    \/ board' \in InitDraws /\ Reject
    \/ setWalletAddress
    \/ \E id \in AchievementIds : handleClaimAchievement(id)
    \/ claimMinted
    \/ claimFailed

SpecSession == InitSession /\ [][NextSession]_vars

\* ------------------------------------------------------------------ restart

\* Home mounted on a hook that hands out a mock client: freshly mounted, or in
\* the middle of a game with points scored and achievements unlocked and
\* claimed, or at the end of one
InitRestart ==
    /\ variant = "transpose"
    /\ constAssign = "assigns"
    /\ hook \in {"timer", "status"}
    /\ moves = 0
    /\ last = NoMove
    /\ kept = NoKept
    /\ rowIn = Nulls(BOARD_SIZE)
    /\ rowOut = NoRow
    /\ error = "null"
    /\ encTypes = FALSE
    /\ polls = 0
    /\ calls = {}
    /\ started = 0
    /\ latestDone = TRUE
    /\ returned = NoReturn
    /\ session = FALSE
    /\ walletAddress = FALSE
    /\ claiming = "none"
    /\ listener = NoListener
    /\ \/ /\ board = EmptyBoard
          /\ score = 0
          /\ gameOver = FALSE
          /\ achievements = INITIAL_ACHIEVEMENTS
          /\ client = (IF hook = "status" THEN "compat" ELSE "none")
          /\ initialized = FALSE
          /\ status = "booting"
          /\ hasPermit = FALSE
          /\ ticking = TRUE
          /\ cdn \in {"unset", "loaded", "failed"}
          /\ sdkKind \in (IF hook = "status" THEN {"absent", "full"} ELSE {"absent"})
       \/ /\ hook = "status"
          /\ \E n \in 1..SessionPool : board = SessionPosition(n)
          /\ score = 4 * maxValue("compat", board)
          /\ gameOver \in BOOLEAN
          /\ \E claimed \in BOOLEAN :
                achievements =
                    [id \in AchievementIds |->
                        [unlocked |-> maxValue("compat", board) >= threshold(id),
                         claimed |-> claimed /\ maxValue("compat", board) >= threshold(id)]]
          /\ client = "compat"
          /\ initialized = TRUE
          /\ status = "ready"
          /\ hasPermit = TRUE
          /\ ticking = FALSE
          /\ cdn = "loaded"
          /\ sdkKind = "full"

\* the hooks' steps; every one that makes initialized or client change runs
\* initializeBoard with its two random draws
NextRestart ==
    \/ TimerInit
    \/ Tick
    \/ CdnSignal
    \/ \E hasArgs \in BOOLEAN : started < SessionCalls /\ initCoFHE(hasArgs)
    \/ started < SessionCalls /\ generatePermit
    \/ Resolve
    \/ Reject

SpecRestart == InitRestart /\ [][NextRestart]_vars

\* ------------------------------------------------------------------ play to the end

\* positions late in a game: few cells left, few tiles that can merge
EndPosition(n) ==
    CASE n = 1 -> <<<<131072, 65536, 32768, 16384>>, <<1024, 2048, 4096, 8192>>,
                    <<512, 256, 128, 64>>, <<16, 32, Null, Null>>>>
      [] n = 2 -> <<<<131072, 65536, 32768, 16384>>, <<1024, 2048, 4096, 8192>>,
                    <<512, 256, 128, 64>>, <<32, Null, Null, Null>>>>
      [] OTHER -> <<<<131072, 65536, 32768, 16384>>, <<1024, 2048, 4096, 8192>>,
                    <<512, 256, 128, Null>>, <<64, Null, Null, Null>>>>

\* number of late positions a game is picked up at
EndPool == 1

\* Home late in a game played with the mock client of the timer hook
InitEnd ==
    /\ variant = "transpose"
    /\ constAssign = "assigns"
    /\ client = "mock"
    /\ initialized = TRUE
    /\ \E n \in 1..EndPool : board = EndPosition(n)
    /\ score = BoardWorth("mock", board)
    /\ gameOver = FALSE
    /\ achievements = unlockAchievements(INITIAL_ACHIEVEMENTS, maxValue("mock", board))
    /\ moves = 0
    /\ last = NoMove
    /\ kept = NoKept
    /\ rowIn = Nulls(BOARD_SIZE)
    /\ rowOut = NoRow
    /\ hook = "timer"
    /\ status = "booting"
    /\ error = "null"
    /\ hasPermit = FALSE
    /\ cdn = "unset"
    /\ sdkKind = "absent"
    /\ encTypes = FALSE
    /\ ticking = FALSE
    /\ polls = 0
    /\ calls = {}
    /\ started = 0
    /\ latestDone = TRUE
    /\ returned = NoReturn
    /\ session = FALSE
    /\ walletAddress = FALSE
    /\ claiming = "none"
    /\ listener = NoListener

\* a move that changes the board; the moves are not counted
boardChangingMove == \E direction \in Directions : moveStep(direction, moves) /\ board' # board

\* a move that leaves the board as it is
idleMove == \E direction \in Directions : moveStep(direction, moves) /\ board' = board

NextEnd == boardChangingMove \/ idleMove

\* what a board-changing move does to the board: move is not held back by its
\* guard, the slide of some direction reports moved, a tile is added
boardChange ==
    /\ ~gameOver /\ client # "none" /\ initialized
    /\ \E direction \in Directions : \E m \in {slideBoard(client, board, direction)} :
          m.moved /\ board' \in addRandomTile(client, m.board)

\* the player keeps making board-changing moves while there is one
SpecEnd == InitEnd /\ [][NextEnd]_vars /\ WF_board(boardChange)

\* ------------------------------------------------------------------ the game on the real client

\* the cell the real client's encrypt32 returned for v: a Promise
SealCell(v) == IF v = Null THEN Null ELSE RealEncrypt32(v)

Seal(b) == [i \in Idx |-> [j \in Idx |-> SealCell(b[i][j])]]

\* the plain value behind a cell, whichever client sealed it
PlainCell(x) == IF IsPromise(x) THEN 0 - x ELSE x

Plain(b) == [i \in Idx |-> [j \in Idx |-> PlainCell(b[i][j])]]

\* boards of a game played with the real client: no cell was ever merged,
\* every tile is a spawned 2 or 4
AsyncPositions ==
    {b \in Positions : \A p \in Idx \X Idx : b[p[1]][p[2]] \in {Null} \cup SpawnValues}

\* Home on the status hook at status ready with the SDK globals present, in
\* the middle of a game; the provider answers or has begun to fail
InitAsync ==
    /\ variant = "transpose"
    /\ constAssign = "assigns"
    /\ client \in {"real", "real-down"}
    /\ initialized = TRUE
    /\ \E b \in AsyncPositions : board = Seal(b)
    /\ score = 0
    /\ gameOver = isGameOver("real", board)
    /\ achievements = INITIAL_ACHIEVEMENTS
    /\ moves = 0
    /\ last = NoMove
    /\ kept = NoKept
    /\ rowIn = Nulls(BOARD_SIZE)
    /\ rowOut = NoRow
    /\ hook = "status"
    /\ status = "ready"
    /\ error = "null"
    /\ hasPermit = TRUE
    /\ cdn = "loaded"
    /\ sdkKind = "full"
    /\ encTypes = TRUE
    /\ ticking = FALSE
    /\ polls = 0
    /\ calls = {}
    /\ started = 0
    /\ latestDone = TRUE
    /\ returned = NoReturn
    /\ session = TRUE
    /\ walletAddress = TRUE
    /\ claiming = "none"
    /\ listener = NoListener

NextAsync == \E direction \in Directions : moves = 0 /\ move(direction)

SpecAsync == InitAsync /\ [][NextAsync]_vars

\* ------------------------------------------------------------------ the keydown listener

\* what the move of the current render closes over
Render == [registered |-> TRUE, board |-> board, gameOver |-> gameOver,
           client |-> client, initialized |-> initialized]

\* the effect on [board, gameOver, client, initialized], run after a render
\* in which one of them changed: the listener of the render before is
\* removed and handleKey of this render is added
keydownEffect ==
    /\ variant = "transpose"
    /\ listener # Render
    /\ listener' = Render
    /\ UNCHANGED <<gameVars, rowIn, rowOut, hookVars, walletAddress, claiming>>

\* a keydown event of an arrow key reaches window: the registered handleKey
\* calls the move of its render, which reads board, gameOver, client and
\* initialized of that render and queues setBoard(newBoard), the functional
\* updates of score and achievements, and setGameOver(true)
keydown(direction) ==
    /\ variant = "transpose"
    /\ listener.registered
    /\ IF listener.gameOver \/ listener.client = "none" \/ ~listener.initialized
       THEN /\ last' = [Observed(direction, FALSE, FALSE, FALSE, 0, listener.board)
                            EXCEPT !.before = listener.board]
            /\ UNCHANGED <<board, score, gameOver, achievements, moves>>
       ELSE \E m \in {slideBoard(listener.client, listener.board, direction)} :
                /\ last' = [Observed(direction, TRUE, FALSE, m.moved, m.totalScoreAdd, m.board)
                                EXCEPT !.before = listener.board]
                /\ IF m.moved
                   THEN /\ \E newBoard \in addRandomTile(listener.client, m.board) :
                              /\ board' = newBoard
                              /\ score' = score + m.totalScoreAdd
                              /\ achievements' =
                                     unlockAchievements(achievements,
                                                        maxValue(listener.client, newBoard))
                              /\ gameOver' = IF isGameOver(listener.client, newBoard)
                                             THEN TRUE ELSE gameOver
                        /\ moves' = moves + 1
                   ELSE UNCHANGED <<board, score, gameOver, achievements, moves>>
    /\ UNCHANGED <<variant, constAssign, client, initialized, kept, rowIn, rowOut>>
    /\ UNCHANGED <<hookVars, claimVars>>

\* the boards a keydown stores when its draw falls on one of the first empty cells
KeyDraws(direction) ==
    IF ~listener.registered \/ listener.client = "none" THEN {board}
    ELSE LET slid == slideBoard(listener.client, listener.board, direction).board
         IN  {board, slid} \cup BoundedSpawns(slid)

\* Home in the middle of a game with the timer hook's mock client, the
\* listener of the current render registered
InitKeys ==
    /\ variant = "transpose"
    /\ constAssign = "assigns"
    /\ client = "mock"
    /\ initialized = TRUE
    /\ \E n \in 1..SessionPool : board = SessionPosition(n)
    /\ score = 0
    /\ gameOver = FALSE
    /\ achievements = unlockAchievements(INITIAL_ACHIEVEMENTS, maxValue(client, board))
    /\ moves = 0
    /\ last = NoMove
    /\ kept = NoKept
    /\ rowIn = Nulls(BOARD_SIZE)
    /\ rowOut = NoRow
    /\ hook = "timer"
    /\ status = "booting"
    /\ error = "null"
    /\ hasPermit = FALSE
    /\ cdn = "unset"
    /\ sdkKind = "absent"
    /\ encTypes = FALSE
    /\ ticking = FALSE
    /\ polls = 0
    /\ calls = {}
    /\ started = 0
    /\ latestDone = TRUE
    /\ returned = NoReturn
    /\ session = FALSE
    /\ walletAddress = FALSE
    /\ claiming = "none"
    /\ listener = Render

NextKeys ==
    \/ \E direction \in Directions :
          moves < MaxMoves /\ board' \in KeyDraws(direction) /\ keydown(direction)
    \/ keydownEffect

SpecKeys == InitKeys /\ [][NextKeys]_vars

\* ------------------------------------------------------------------ claims on the row pass

\* the classic single pass: a merged cell is emitted and never compared again
RECURSIVE SinglePass(_)
SinglePass(f) ==
    IF Len(f) = 0 THEN [row |-> <<>>, score |-> 0]
    ELSE IF Len(f) >= 2 /\ f[1] = f[2]
         THEN LET r == SinglePass(SubSeq(f, 3, Len(f)))
              IN  [row |-> <<2 * f[1]>> \o r.row, score |-> 2 * f[1] + r.score]
         ELSE LET r == SinglePass(Tail(f))
              IN  [row |-> <<f[1]>> \o r.row, score |-> r.score]

SinglePassRow(row) ==
    LET r == SinglePass(NonNull(row))
    IN  [row |-> r.row \o Nulls(BOARD_SIZE - Len(r.row)), score |-> r.score]

\* C1: the row pass never merges a cell that a merge of the same pass produced:
\* its result is the single-pass result (each input tile takes part in at most
\* one merge), e.g. [2,2,4,empty] gives [4,4,empty,empty] with score 4.
C1_NoCascade ==
    rowOut.done =>
        /\ rowOut.row = SinglePassRow(rowIn).row
        /\ rowOut.scoreAdd = SinglePassRow(rowIn).score

\* g is f with consecutive tiles summed group by group, in order
RECURSIVE IsGrouping(_, _)
IsGrouping(f, g) ==
    IF Len(g) = 0 THEN Len(f) = 0
    ELSE \E n \in 1..Len(f) :
            /\ SumSeq(SubSeq(f, 1, n)) = g[1]
            /\ IsGrouping(SubSeq(f, n + 1, Len(f)), Tail(g))

\* C3: the row returned by slideRowLeft has length 4, its non-empty cells form
\* a prefix, and the tiles keep the order of the input (every output tile is an
\* input tile or the merge of consecutive input tiles, in input order).
C3_PrefixAndOrder ==
    (rowOut.done /\ variant = "transpose") =>
        /\ Len(rowOut.row) = BOARD_SIZE
        /\ \A i \in 1..(BOARD_SIZE - 1) : rowOut.row[i] = Null => rowOut.row[i + 1] = Null
        /\ IsGrouping(NonNull(rowIn), NonNull(rowOut.row))

\* a row with a gap and a merge has been compacted
C3_Witness ==
    /\ rowOut.done /\ variant = "transpose"
    /\ rowIn = <<Null, 2, Null, 2>>
    /\ rowOut.row = <<4, Null, Null, Null>>

\* C10: [v,v,empty,empty] becomes [2v,empty,empty,empty] with score 2v, and
\* [v,v,v,v] becomes [2v,2v,empty,empty] with score 4v, for every tile value v.
C10_Scenarios ==
    (rowOut.done /\ variant = "transpose") =>
        \A v \in TileValues :
            /\ rowIn = <<v, v, Null, Null>> =>
                   rowOut.row = <<2 * v, Null, Null, Null>> /\ rowOut.scoreAdd = 2 * v
            /\ rowIn = <<v, v, v, v>> =>
                   rowOut.row = <<2 * v, 2 * v, Null, Null>> /\ rowOut.scoreAdd = 4 * v

\* the scenario row [2,2,2,2] has been slid to [4,4,0,0] with score 8
C10_Witness ==
    /\ rowOut.done /\ variant = "transpose"
    /\ rowIn = <<2, 2, 2, 2>>
    /\ rowOut.row = <<4, 4, Null, Null>>
    /\ rowOut.scoreAdd = 8

\* ------------------------------------------------------------------ claims on move

\* b with one tile of value 2 or 4 put on an empty cell (b itself when it is full)
IsSpawnOf(b, nb) ==
    IF EmptyCells(b) = {} THEN nb = b
    ELSE \E p \in EmptyCells(b) : \E v \in SpawnValues : nb = [b EXCEPT ![p[1]][p[2]] = v]

\* the state is as it was before the last call of move
NothingChanged ==
    /\ board = last.before
    /\ score = last.scoreBefore
    /\ achievements = last.achievementsBefore
    /\ gameOver = last.gameOverBefore

\* C2: the score a move adds is the sum of the values of the cells its merges
\* create, 2v for each merge of two cells v; sliding tiles and the spawned
\* tile add nothing.
C2_ScoreIsMergeSum ==
    (last.op = "move" /\ variant = "transpose" /\ last.accepted) =>
        /\ last.gained = BoardWorth(client, last.slid) - BoardWorth(client, last.before)
        /\ score - last.scoreBefore = (IF last.moved THEN last.gained ELSE 0)

\* a move that merged (a cascade among its merges) and spawned a tile
C2_Witness ==
    /\ last.op = "move" /\ variant = "transpose" /\ last.accepted /\ last.moved
    /\ last.gained >= 12
    /\ board # last.slid
    /\ score = last.scoreBefore + last.gained

\* no empty cell and no two adjacent cells that unseal to equal values
NoLegalMove(c, b) ==
    /\ \A p \in Idx \X Idx : b[p[1]][p[2]] # Null
    /\ \A i \in Idx : \A j \in 1..(BOARD_SIZE - 1) : unseal(c, b[i][j]) # unseal(c, b[i][j + 1])
    /\ \A i \in 1..(BOARD_SIZE - 1) : \A j \in Idx : unseal(c, b[i][j]) # unseal(c, b[i + 1][j])

\* C4: isGameOver(board) is true iff the board has no empty cell and no two
\* horizontally or vertically adjacent cells unseal to equal values.
C4_GameOverIffTerminal ==
    /\ (variant = "transpose" /\ client # "none") =>
           (isGameOver(client, board) <=> NoLegalMove(client, board))
    /\ variant = "plain" => (plainIsGameOver(board) <=> NoLegalMove(client, board))

\* a move stored a board without a legal move and isGameOver said so
C4_Witness ==
    /\ variant = "transpose" /\ last.op = "move" /\ last.moved
    /\ NoLegalMove(client, board)
    /\ isGameOver(client, board)
    /\ gameOver /\ ~last.gameOverBefore

\* C5: on a board with no legal move, move(d) changes nothing, for every
\* direction d and however often it is called.
C5_NoMoveOnTerminal ==
    (last.op = "move" /\ NoLegalMove(client, last.before)) =>
        /\ ~last.moved
        /\ NothingChanged

\* move("up") was called on a full board with no equal neighbours
C5_Witness ==
    /\ last.op = "move" /\ last.dir = "up" /\ variant = "rotation"
    /\ NoLegalMove(client, last.before)
    /\ board = last.before

\* C6: moved is true iff the board after slide and merge, back in its original
\* orientation, differs from the input board; only then a tile is spawned, the
\* score updated and the terminal check run; otherwise nothing is modified.
C6_ChangedIffDiffers ==
    (last.op = "move" /\ variant = "transpose" /\ last.accepted) =>
        /\ last.moved <=> (last.slid # last.before)
        /\ ~last.moved => NothingChanged
        /\ last.moved =>
              /\ IsSpawnOf(last.slid, board)
              /\ score = last.scoreBefore + last.gained
              /\ gameOver <=> NoLegalMove(client, board)

\* a move down that changed the board, with the new tile on it
C6_Witness ==
    /\ last.op = "move" /\ variant = "transpose" /\ last.accepted
    /\ last.dir = "down" /\ last.moved
    /\ last.slid # last.before
    /\ board # last.slid

\* the cell (i, j) of b moved in direction d, when every line of b is passed
\* through the row pass P from the edge the tiles move to
RefCell(P(_), b, d, i, j) ==
    CASE d = "left"  -> P(b[i])[j]
      [] d = "right" -> P(<<b[i][4], b[i][3], b[i][2], b[i][1]>>)[BOARD_SIZE + 1 - j]
      [] d = "up"    -> P(<<b[1][j], b[2][j], b[3][j], b[4][j]>>)[i]
      [] d = "down"  -> P(<<b[4][j], b[3][j], b[2][j], b[1][j]>>)[BOARD_SIZE + 1 - i]

RefMove(P(_), b, d) == MkSeq(LAMBDA i : MkSeq(LAMBDA j : RefCell(P, b, d, i, j)))

\* C7: in the transpose/reverse variant the board before the spawn is, for each
\* direction, the board whose rows (left, right) or columns (up, down) are
\* compacted and merged toward the edge the direction names, in the original
\* orientation.
C7_TransposeDirections ==
    (last.op = "move" /\ variant = "transpose" /\ last.accepted) =>
        last.slid = RefMove(LAMBDA r : slideRowLeft(client, r).row, last.before, last.dir)

\* a move down slid a tile to the bottom row
C7_Witness ==
    /\ last.op = "move" /\ variant = "transpose" /\ last.accepted
    /\ last.dir = "down" /\ last.moved
    /\ last.before[4][4] = Null
    /\ last.slid[4][4] # Null

\* C8: in the rotation variant the rotations before and after the slide add up
\* to a multiple of 4 for every direction, and the board move works on after
\* the rotate-back loop is the correctly moved board in its original
\* orientation (so a move that can slide or merge nothing is no change).
C8_RotatedBack ==
    (last.op = "move" /\ variant = "rotation" /\ last.accepted /\ ~last.threw) =>
        /\ (rotateTimes(last.dir) + rotateBackCount(last.dir)) % 4 = 0
        /\ last.slid = RefMove(LAMBDA r : rotSlideRowLeft(client, r).row, last.before, last.dir)

\* C9: in the plain-number variant the tiles slide and merge toward the edge
\* the direction names and the board keeps its orientation.
C9_PlainDirections ==
    (last.op = "move" /\ variant = "plain" /\ last.accepted) =>
        last.slid = RefMove(LAMBDA r : plainSlideRow(r).row, last.before, last.dir)

\* the cells in which the boards b and nb differ
DiffCells(b, nb) == {p \in Idx \X Idx : nb[p[1]][p[2]] # b[p[1]][p[2]]}

\* nb is b when b is full; otherwise nb differs from b in exactly one cell, which
\* was empty in b and unseals to 2 or 4 in nb
SpawnFrame(c, b, nb) ==
    IF EmptyCells(b) = {} THEN nb = b
    ELSE /\ Cardinality(DiffCells(b, nb)) = 1
         /\ \A p \in DiffCells(b, nb) :
                /\ b[p[1]][p[2]] = Null
                /\ unseal(c, nb[p[1]][p[2]]) \in {2, 4}

\* C11: addRandomTile(b) returns b when b has no empty cell; otherwise its
\* result differs from b in exactly one cell, which was empty and now holds a
\* sealed 2 or 4; every other cell is unchanged (transpose and plain variants).
C11_SpawnFrame ==
    /\ variant = "transpose" =>
           /\ \A nb \in addRandomTile(client, board) : SpawnFrame(client, board, nb)
           /\ (last.op = "move" /\ last.moved) => SpawnFrame(client, last.slid, board)
    /\ variant = "plain" =>
           /\ \A nb \in plainAddRandomTile(board) : SpawnFrame(client, board, nb)
           /\ (last.op = "move" /\ last.moved) => SpawnFrame(client, last.slid, board)

\* a move of the transpose variant put a 4 on a cell that was empty after the slide
C11_Witness ==
    /\ variant = "transpose" /\ last.op = "move" /\ last.moved
    /\ \E p \in EmptyCells(last.slid) : board = [last.slid EXCEPT ![p[1]][p[2]] = 4]

\* C12: move and addRandomTile never modify the board that was current when
\* they were called, nor any of its row arrays: when move returns, the array
\* object of the previous board still holds the previous board, the argument
\* of addRandomTile still holds the slid board, and the stored board is a
\* different object holding the new board.
C12_CopyOnWrite ==
    (last.op = "move" /\ variant = "transpose") =>
        /\ kept.before = last.before
        /\ last.accepted => kept.slid = last.slid
        /\ kept.stored = board

\* a move to the right, which reverses row arrays in place, changed the board
C12_Witness ==
    /\ last.op = "move" /\ variant = "transpose" /\ last.accepted
    /\ last.dir = "right" /\ last.moved
    /\ kept.before = last.before
    /\ kept.stored # kept.before

\* ------------------------------------------------------------------ claims on the session

\* n is 2, 4, 8, ...
RECURSIVE IsPow2(_)
IsPow2(n) == n = 2 \/ (n > 2 /\ n % 2 = 0 /\ IsPow2(n \div 2))

\* C13: in every state of a session played with a mock client, after any
\* restarts and moves, the board is 4 rows of 4 cells and every non-empty cell
\* unseals to a power of two that is at least 2.
C13_PowersOfTwo ==
    /\ DOMAIN board = Idx
    /\ \A r \in Idx : DOMAIN board[r] = Idx
    /\ \A p \in Idx \X Idx :
           board[p[1]][p[2]] # Null => IsPow2(unseal(client, board[p[1]][p[2]]))

\* a second move of the session merged tiles and a tile was spawned
C13_Witness ==
    /\ moves = 2 /\ last.op = "move" /\ last.moved /\ last.gained > 0
    /\ board # last.slid

\* C16: after a move that changed the board every achievement whose threshold
\* is at most the greatest unsealed value of the new board is unlocked, and
\* an achievement unlocked before a move is unlocked after it.
C16_UnlockedByMax ==
    last.op = "move" =>
        /\ last.moved =>
               \A id \in AchievementIds :
                   threshold(id) <= maxValue(client, board) => achievements[id].unlocked
        /\ \A id \in AchievementIds :
               last.achievementsBefore[id].unlocked => achievements[id].unlocked

\* a move reached a threshold and unlocked its achievement, another one being
\* unlocked already
C16_Witness ==
    /\ last.op = "move" /\ last.moved
    /\ \E id \in AchievementIds :
           /\ ~last.achievementsBefore[id].unlocked
           /\ achievements[id].unlocked
           /\ maxValue(client, board) = threshold(id)
    /\ \E id \in AchievementIds : last.achievementsBefore[id].unlocked

\* C15: in every state of a session, whatever the interleaving of moves,
\* re-initialisations of the board and completions of handleClaimAchievement,
\* every claimed achievement is unlocked.
C15_ClaimedIsUnlocked ==
    \A id \in AchievementIds : achievements[id].claimed => achievements[id].unlocked

\* C17: no step of a session (move, readiness change, re-initialisation of the
\* board) turns an achievement's claimed flag from true to false.
C17_ClaimedStays ==
    [][\A id \in AchievementIds : achievements[id].claimed => achievements'[id].claimed]_vars

\* C19: while the status is cdn-missing, error or mock the game can be played:
\* the board holds its two starting tiles at least, and unless the game is
\* over move passes its guard with a client.
C19_PlayableWhenDegraded ==
    (hook = "status" /\ status \in {"cdn-missing", "error", "mock"}) =>
        /\ TileCount(board) >= 2
        /\ ~gameOver => (initialized /\ client # "none")

\* ------------------------------------------------------------------ claims on useFHE

\* C14: for every tile value v, client.unseal(client.encrypt32(v)) equals v for
\* the client object useFHE hands to the game.
C14_RoundTrip ==
    client # "none" =>
        \A v \in TileValues : StrictEq(unseal(client, encrypt32(client, v)), v)

\* C18: the status starts as booting, and if window.__COFHE_STATUS__ never
\* becomes "loaded" or "failed" the status nevertheless becomes cdn-missing:
\* the poll does not stay in booting forever.
C18_BootEscapes ==
    /\ status = "booting"
    /\ [](cdn = "unset") => <>(status = "cdn-missing")

\* C20: once the most recently started initCoFHE / generatePermit call has
\* settled, the settling of an earlier call that was still awaited changes
\* neither status nor error nor hasPermit.
C20_LatestCallWins ==
    [][(latestDone /\ calls # {} /\ calls' # calls /\ calls' \subseteq calls) =>
          (status' = status /\ error' = error /\ hasPermit' = hasPermit)]_vars

\* ------------------------------------------------------------------ claims on authorize

\* the type FHEStatus of the status hook and of the ethers hook
FHEStatus ==
    {"booting", "cdn-missing", "cdn-loaded", "needs-wallet", "initializing",
     "permit-needed", "ready", "mock", "error"}

\* C21: the status never stays initializing: a call that set it is followed
\* by a different status, also when the provider's promise never settles.
C21_LeavesInitializing == (status = "initializing") ~> (status # "initializing")

\* C22: a call of initCoFHE or initWithEthers without the SDK on window ends
\* in mock with an error recorded, one with the SDK but without provider or
\* signer ends in needs-wallet; both return false, and neither sets
\* initializing nor awaits the provider.
C22_MissingPrerequisites ==
    [][\A hasArgs \in BOOLEAN :
          ((initCoFHE(hasArgs) \/ initWithEthers(hasArgs)) /\ (Sdk = "absent" \/ ~hasArgs)) =>
              /\ status' = (IF Sdk = "absent" THEN "mock" ELSE "needs-wallet")
              /\ Sdk = "absent" => error' # "null"
              /\ returned'.value = "false"
              /\ calls' = calls]_vars

\* a call has returned false for a missing wallet, or for a missing SDK
C22_Witness ==
    /\ returned.value = "false" /\ returned.op \in {"init", "ethers"}
    /\ \/ status = "needs-wallet" /\ Sdk # "absent"
       \/ status = "mock" /\ Sdk = "absent" /\ error = "no-sdk"

\* C23: when the provider rejects an authorize call (or it times out) the
\* status becomes error, the error field holds the message and the call
\* returns false.
C23_RejectionIsError ==
    [][((Reject \/ RejectEthers) /\ returned'.op \in {"init", "ethers"}) =>
          (status' = "error" /\ error' # "null" /\ returned'.value = "false")]_vars

C26_MovesSerialized ==
    [][moves' = moves + 1 =>
          /\ last'.before = board
          /\ score' - score = BoardWorth(client, last'.slid) - BoardWorth(client, board)]_vars

\* a tile: a number, or a Promise of a number, that is a power of two from 2 up
IsTile(x) == x # Null => IsPow2(PlainCell(x))

\* C27: a move during which the provider fails leaves the grid sound: move
\* does not throw, the stored board is the board before the move or a whole
\* board of tiles, nothing was merged on a failed comparison and the score did
\* not grow.
C27_GridSurvivesFailure ==
    (last.op = "move" /\ client = "real-down") =>
        /\ ~last.threw
        /\ \/ board = last.before
           \/ \A p \in Idx \X Idx : IsTile(board[p[1]][p[2]])
        /\ last.gained = 0
        /\ score = last.scoreBefore

\* C28: with the real client of status ready a move gives, for the same plain
\* board, the merges, the score delta and the moved verdict the mock client
\* gives, and isGameOver gives the same verdict.
C28_AsyncAgrees ==
    /\ isGameOver(client, board) = isGameOver("mock", Plain(board))
    /\ (last.op = "move" /\ last.accepted /\ client = "real") =>
           \E ref \in {slideBoard("mock", Plain(last.before), last.dir)} :
               /\ last.gained = ref.totalScoreAdd
               /\ last.moved = ref.moved
               /\ Plain(last.slid) = ref.board

\* ------------------------------------------------------------------ claims on the authorized state

\* C29: the client of the status hook is the real one only at status ready
\* with the SDK globals present and is otherwise the mock whose encrypt32
\* returns its argument; encryptUint32 of the ethers hook works in mode cofhe
\* only at status ready with the SDK globals present.
C29_RealOnlyWhenReady ==
    /\ hook = "status" =>
          /\ client = "real" => (status = "ready" /\ Sdk # "absent" /\ encTypes)
          /\ client # "real" =>
                (client = "compat" /\ \A v \in TileValues : encrypt32(client, v) = v)
    /\ hook = "ethers" =>
          (encryptUint32Mode = "cofhe" => (status = "ready" /\ Sdk # "absent" /\ encTypes))

\* the status hook reached ready with the globals present and hands out the
\* real client
C29_Witness == hook = "status" /\ status = "ready" /\ client = "real" /\ returned.op = "permit"

\* C30: generatePermit brings the status to ready only when an earlier
\* initCoFHE resolved and no initCoFHE failed since.
C30_ReadyNeedsSession ==
    (hook = "status" /\ status = "ready") => session

\* ------------------------------------------------------------------ claims on restart and play

\* C31: after initializeBoard with a client present the board holds exactly
\* two tiles, each 2 or 4, all other cells empty, the score is 0, gameOver is
\* false and every achievement is locked and unclaimed.
C31_Restart ==
    last.op = "initializeBoard" =>
        /\ TileCount(board) = 2
        /\ \A p \in Idx \X Idx : board[p[1]][p[2]] \in {Null} \cup SpawnValues
        /\ score = 0
        /\ ~gameOver
        /\ \A id \in AchievementIds :
               ~achievements[id].unlocked /\ ~achievements[id].claimed

\* a game with points and a claimed achievement was restarted by the permit
\* being renewed; the two tiles are a 2 and a 4 away from each other
C31_Witness ==
    /\ last.op = "initializeBoard"
    /\ hook = "status" /\ returned.op = "permit" /\ started = 1
    /\ board[2][3] = 2 /\ board[4][1] = 4

\* the statuses an authorize operation sets
AuthorizeStatuses == {"needs-wallet", "initializing", "permit-needed", "ready", "mock"}

\* C32: a tick of the CDN poll that comes after the first one leaves a status
\* set by an authorize operation as it is, and a tick that saw "loaded" or
\* "failed" schedules no further tick.
C32_PollOnlyWhileBooting ==
    [][(Tick /\ polls >= 1) =>
          /\ status \in AuthorizeStatuses => status' = status
          /\ cdn # "unset" => ~ticking']_vars

\* C33: in every state of a game gameOver is true iff the stored board is
\* terminal: no empty cell and no two adjacent cells equal.
C33_GameOverIsTerminal == gameOver <=> Terminal(board)

\* the move that ended the game merged two tiles and its spawn filled the board
C33_Witness ==
    /\ gameOver /\ Terminal(board)
    /\ last.op = "move" /\ last.moved /\ last.gained > 0 /\ ~last.gameOverBefore

\* C34: once gameOver is true a call of move, in the transpose variant and in
\* the plain-number variant, leaves board, score and achievements as they
\* are and gameOver true.
C34_FrozenWhenOver ==
    (last.op = "move" /\ last.gameOverBefore /\ variant \in {"transpose", "plain"}) =>
        /\ ~last.accepted
        /\ NothingChanged
        /\ gameOver

\* the plain-number move was called for "down" with gameOver true, on a board
\* that is not its own transpose
C34_Witness ==
    /\ last.op = "move" /\ last.gameOverBefore /\ variant = "plain" /\ last.dir = "down"
    /\ board # transpose(board)
    /\ gameOver

\* the sum of the unsealed values of the tiles of b
TileSum(c, b) ==
    SumSeq(MkSeq(LAMBDA i : SumSeq(MkSeq(LAMBDA j :
        IF b[i][j] = Null THEN 0 ELSE unseal(c, b[i][j])))))

\* the number of times the loop of slideRowLeft takes its merge branch
RECURSIVE MergesIn(_, _, _)
MergesIn(c, filtered, k) ==
    IF k < Len(filtered)
    THEN IF StrictEq(unseal(c, filtered[k]), unseal(c, filtered[k + 1]))
         THEN 1 + MergesIn(c, Splice(SetAt(filtered, k, encrypt32(c, unseal(c, filtered[k]) * 2)),
                                     k + 1), k)
         ELSE MergesIn(c, filtered, k + 1)
    ELSE 0

\* the merges of move(direction) on b
MergesOf(c, b, direction) ==
    SumSeq(MkSeq(LAMBDA i : MergesIn(c, NonNull(preTransform(b, direction)[i]), 1)))

\* C35: the slide-and-merge step of a move leaves the sum of the unsealed
\* values on the board as it was; a move that changed the board raises the
\* sum by 2 or by 4, and the number of tiles by 1 less the number of merges.
C35_TileSumConserved ==
    (last.op = "move" /\ variant = "transpose" /\ last.accepted) =>
        /\ TileSum(client, last.slid) = TileSum(client, last.before)
        /\ last.moved =>
              /\ TileSum(client, board) - TileSum(client, last.before) \in SpawnValues
              /\ TileCount(board) =
                     TileCount(last.before) + 1 - MergesOf(client, last.before, last.dir)

\* a move with three merges (one row merged twice) stored a board with fewer
\* tiles and a sum 4 higher
C35_Witness ==
    /\ last.op = "move" /\ variant = "transpose" /\ last.moved
    /\ MergesOf(client, last.before, last.dir) = 3
    /\ TileCount(board) = TileCount(last.before) - 2
    /\ TileSum(client, board) = TileSum(client, last.before) + 4

\* C37: between two restarts the score never goes down, right after a restart
\* it is 0, and it is always a multiple of 4.
C37_ScoreGrows ==
    /\ score % 4 = 0
    /\ last.op = "initializeBoard" => score = 0
    /\ last.op = "move" => score >= last.scoreBefore

\* a second move in a row added points
C37_Witness ==
    /\ last.op = "move" /\ moves = 2 /\ last.moved
    /\ last.scoreBefore > 0 /\ score > last.scoreBefore

C36_PlayEnds == <>gameOver

\* the game went on for several merges (an 8 was built out of spawned tiles)
\* before the move that filled the board ended it
C36_Witness ==
    /\ gameOver /\ last.op = "move" /\ last.moved /\ ~last.gameOverBefore
    /\ \E p \in Idx \X Idx : board[p[1]][p[2]] = 8

\* ------------------------------------------------------------------ claims on the hook's state

\* C38: in every state of the status hook, status ready implies error null,
\* whatever the interleaving of initCoFHE and generatePermit calls.
C38_ReadyHasNoError == (hook = "status" /\ status = "ready") => error = "null"

\* C39: in every state of the status hook hasPermit is true only while the
\* status is ready.
C39_PermitOnlyWhenReady == (hook = "status" /\ hasPermit) => status = "ready"

====
